---- MODULE Spec2Model ----
(***************************************************************************)
(* A model of apgbuild's archive engine (internal/archive/archive.go) and  *)
(* checksum manifest (internal/checksum/crc32.go).                         *)
(*                                                                         *)
(* Strings are sequences of one-character strings, so that the string      *)
(* functions the code calls (strings.Contains, filepath.Clean, ...) are    *)
(* computed character by character.  "NUL" stands for the byte 0.          *)
(***************************************************************************)
EXTENDS Integers, Sequences, FiniteSets, TLC

VARIABLES
    pcName,     \* SpecPath: header.Name of the entry under the check
    pcDest,     \* SpecPath: destDir handed to Extract
    pcSafe,     \* SpecPath: the value isPathSafe returned ("unset" before)
    pcOutcome,  \* SpecPath: "pending", "skipped" (warning + continue), "checked"
    lmStatus,      \* SpecLimits: "running", "ok" (return nil), "error"
    lmTotalSize,   \* SpecLimits: Extract's totalSize
    lmFileCount,   \* SpecLimits: Extract's fileCount
    lmRead,        \* SpecLimits: headers tarReader.Next has returned
    lmRun,         \* SpecLimits: length of the leading run of directory entries
    lmDeclared,    \* SpecLimits: sum of header.Size over the headers read
    lmWarned,      \* SpecLimits: warnings printed
    lmApplied,     \* SpecLimits: entries that reached the switch of line 171
    lmAppliedSize, \* SpecLimits: sum of header.Size over the applied entries
    lmAppliedMax,  \* SpecLimits: largest header.Size among the applied entries
    lmPassed,      \* SpecLimits: headers read that pass the checks of 149 and 154
    lmPassedSize,  \* SpecLimits: sum of header.Size over those headers
    lmLast,        \* SpecLimits: the entry read last and what became of it
    fs,            \* Spec: the filesystem
    umask,         \* Spec: the process's file mode creation mask
    archive,       \* Spec: the container at archivePath (its headers)
    origin,        \* Spec: "none", "created" (by Create) or "foreign"
    createResult,  \* Spec: what Create returned
    contents,      \* Spec: what ListContents returned
    status,        \* Spec: Extract "idle", "running", "ok" or "error"
    pos,           \* Spec: the header tarReader.Next returns next
    totalSize,     \* Spec: Extract's totalSize
    fileCount,     \* Spec: Extract's fileCount
    warnings,      \* Spec: the warnings Extract printed
    applied,       \* Spec: the headers that reached the switch of line 171
    touched,       \* Spec: real paths Extract created, truncated or wrote
    extractRuns,   \* Spec: calls of Extract so far
    smOut,         \* SpecSums: the manifest path given to Create and Verify
    smRuns,        \* SpecSums: calls of CreateCRC32Sums so far
    smCreate,      \* SpecSums: last CreateCRC32Sums "none", "ok" or "error"
    smEntries,     \* SpecSums: the entries the last CreateCRC32Sums returned
    smVerify,      \* SpecSums: VerifyCRC32Sums since then "none", "ok", "error"
    smPassed,      \* SpecSums: the passed list VerifyCRC32Sums returned
    smFailed,      \* SpecSums: the failed list VerifyCRC32Sums returned
    smModified,    \* SpecSums: real paths of the files changed since Create
    dgPath,        \* SpecDigest: filePath given to CalculateCRC32
    dgPc,          \* SpecDigest: "start", "reading", "done" or "error"
    dgOffset,      \* SpecDigest: bytes of the file read so far
    dgShort,       \* SpecDigest: reads so far that did not fill what was asked
    dgHash,        \* SpecDigest: the register of hash
    dgSum,         \* SpecDigest: the checksum returned
    bdSource,      \* SpecBuild: sourceDir given to CreatePackage
    bdPkg,         \* SpecBuild: the package path given to the Builder
    bdCreate,      \* SpecBuild: CreatePackage "none", "ok" or "error"
    bdWarned,      \* SpecBuild: the warnings CreatePackage printed
    bdExtract,     \* SpecBuild: ExtractPackageTo "none", "ok" or "error"
    bvResult,      \* SpecBuild: VerifyChecksums "none", "nil" or "error"
    bvVerify,      \* SpecBuild: what its call of VerifyCRC32Sums returned
    bvOut,         \* SpecBuild: what VerifyChecksums printed, in order
    bdLog          \* SpecBuild: the Builder's methods called so far, in order

pathVars == <<pcName, pcDest, pcSafe, pcOutcome>>

limitVars ==
    <<lmStatus, lmTotalSize, lmFileCount, lmRead, lmRun, lmDeclared, lmWarned,
      lmApplied, lmAppliedSize, lmAppliedMax, lmPassed, lmPassedSize, lmLast>>

tarVars ==
    <<archive, origin, createResult, contents, status, pos, totalSize,
      fileCount, warnings, applied, touched, extractRuns>>

fsVars == <<fs, umask, tarVars>>

sumVars ==
    <<smOut, smRuns, smCreate, smEntries, smVerify, smPassed, smFailed,
      smModified>>

digestVars == <<dgPath, dgPc, dgOffset, dgShort, dgHash, dgSum>>

buildVars ==
    <<bdSource, bdPkg, bdCreate, bdWarned, bdExtract, bvResult, bvVerify,
      bvOut, bdLog>>

vars == <<pathVars, limitVars, fsVars, sumVars, digestVars, buildVars>>

----------------------------------------------------------------------------
(* Strings                                                                 *)

Slash == "/"
Dot == <<".">>
DotDot == <<".", ".">>

Max(a, b) == IF a >= b THEN a ELSE b

\* strings.Contains(s, sub)
Contains(s, sub) ==
    \E i \in 1..(Len(s) + 1) :
        /\ i + Len(sub) - 1 <= Len(s)
        /\ SubSeq(s, i, i + Len(sub) - 1) = sub

\* strings.ContainsRune(s, 0)
ContainsNul(s) == \E i \in 1..Len(s) : s[i] = "NUL"

\* strings.HasPrefix(s, prefix)
HasPrefix(s, prefix) ==
    /\ Len(s) >= Len(prefix)
    /\ SubSeq(s, 1, Len(prefix)) = prefix

\* filepath.IsAbs(path) on Unix
IsAbs(path) == Len(path) > 0 /\ path[1] = Slash

\* The elements of a path between its separators ("" included).
RECURSIVE SplitSlash(_)
SplitSlash(s) ==
    IF \A i \in 1..Len(s) : s[i] # Slash
    THEN <<s>>
    ELSE LET i == CHOOSE k \in 1..Len(s) :
                      s[k] = Slash /\ \A j \in 1..(k - 1) : s[j] # Slash
         IN  <<SubSeq(s, 1, i - 1)>> \o SplitSlash(SubSeq(s, i + 1, Len(s)))

\* The elements joined by single separators.
RECURSIVE JoinSlash(_)
JoinSlash(segs) ==
    IF segs = <<>> THEN <<>>
    ELSE IF Len(segs) = 1 THEN segs[1]
    ELSE segs[1] \o <<Slash>> \o JoinSlash(Tail(segs))

\* filepath.Clean's element rules: drop "" and ".", let ".." cancel the
\* element before it, drop ".." at the root, keep leading ".." otherwise.
RECURSIVE CleanSegs(_, _, _)
CleanSegs(segs, out, rooted) ==
    IF segs = <<>> THEN out
    ELSE LET s == Head(segs)
             rest == Tail(segs)
         IN  IF s = <<>> \/ s = Dot THEN CleanSegs(rest, out, rooted)
             ELSE IF s = DotDot
             THEN IF out # <<>> /\ out[Len(out)] # DotDot
                  THEN CleanSegs(rest, SubSeq(out, 1, Len(out) - 1), rooted)
                  ELSE IF rooted THEN CleanSegs(rest, out, rooted)
                  ELSE CleanSegs(rest, Append(out, s), rooted)
             ELSE CleanSegs(rest, Append(out, s), rooted)

\* filepath.Clean(path): the shortest lexically equivalent path; symbolic
\* links are not looked at.
Clean(path) ==
    IF path = <<>> THEN Dot
    ELSE LET rooted == path[1] = Slash
             body == JoinSlash(CleanSegs(SplitSlash(path), <<>>, rooted))
         IN  IF rooted THEN <<Slash>> \o body
             ELSE IF body = <<>> THEN Dot
             ELSE body

\* filepath.Join(a, b): empty elements are ignored, the result is Cleaned,
\* and all elements empty gives "".
Join(a, b) ==
    IF a = <<>> /\ b = <<>> THEN <<>>
    ELSE IF a = <<>> THEN Clean(b)
    ELSE IF b = <<>> THEN Clean(a)
    ELSE Clean(a \o <<Slash>> \o b)

----------------------------------------------------------------------------
(* isPathSafe                                                              *)

\* isPathSafe without the containment test of lines 239-242: a faulty
\* variant that the properties below must tell from the real one.
isPathSafeNoTraversalCheck(path, baseDir) ==
    /\ path # <<>>
    /\ ~IsAbs(path)
    /\ ~ContainsNul(path)
    /\ HasPrefix(Clean(Join(baseDir, path)), Clean(baseDir))

isPathSafe(path, baseDir) ==
    /\ path # <<>>
    /\ ~Contains(path, DotDot)
    /\ ~IsAbs(path)
    /\ ~ContainsNul(path)
    /\ LET fullPath == Join(baseDir, path)
           cleanPath == Clean(fullPath)
       IN  HasPrefix(cleanPath, Clean(baseDir))

----------------------------------------------------------------------------
(* SpecPath: Extract's path-safety check of one entry name                 *)

MaxSegs == 4

\* The elements entry names are built from: "", ".", "..", "a", "a..a"
\* (two dots inside a file name) and a name with an embedded NUL.
NameSegs ==
    { <<>>, Dot, DotDot, <<"a">>, <<"a", ".", ".", "a">>, <<"a", "NUL">> }

RECURSIVE SegSeqs(_)
SegSeqs(n) ==
    IF n = 0 THEN { <<>> }
    ELSE LET shorter == SegSeqs(n - 1)
         IN  shorter \cup
             { Append(ss, s) : ss \in { x \in shorter : Len(x) = n - 1 },
                               s \in NameSegs }

\* Entry names: up to MaxSegs elements, relative or with a leading "/".
EntryNames ==
    { JoinSlash(ss) : ss \in SegSeqs(MaxSegs) } \cup
    { <<Slash>> \o JoinSlash(ss) : ss \in SegSeqs(MaxSegs) }

\* Destination directories: "/d", "/", "d", ".", "./d", "../d".
DestDirs ==
    { <<"/", "d">>, <<"/">>, <<"d">>, <<".">>, <<".", "/", "d">>,
      <<".", ".", "/", "d">> }

\* The variables of SpecPath while another specification runs.
PathIdle ==
    /\ pcName = <<>>
    /\ pcDest = <<>>
    /\ pcSafe = "unset"
    /\ pcOutcome = "idle"

\* The variables of SpecLimits while another specification runs.
LimitsIdle ==
    /\ lmStatus = "idle"
    /\ lmTotalSize = 0
    /\ lmFileCount = 0
    /\ lmRead = 0
    /\ lmRun = 0
    /\ lmDeclared = 0
    /\ lmWarned = 0
    /\ lmApplied = 0
    /\ lmAppliedSize = 0
    /\ lmAppliedMax = 0
    /\ lmPassed = 0
    /\ lmPassedSize = 0
    /\ lmLast = [name |-> <<>>, size |-> 0, verdict |-> "none"]

\* The variables of the Builder while it is not run.
BuildIdle ==
    /\ bdSource = <<>>
    /\ bdPkg = <<>>
    /\ bdCreate = "idle"
    /\ bdWarned = {}
    /\ bdExtract = "idle"
    /\ bvResult = "idle"
    /\ bvVerify = [err |-> "", passed |-> <<>>, failed |-> <<>>]
    /\ bvOut = <<>>
    /\ bdLog = <<>>

\* A call of Create: the source directory it was given, what it returned,
\* the error ("" for none) and the result, and the error of the deferred
\* Close calls, which it does not return ("" for none).
CreateResult(sourceDir, err, closeErr, added, size) ==
    [sourceDir |-> sourceDir, err |-> err, closeErr |-> closeErr,
     FilesAdded |-> added, TotalSize |-> size]

\* The variables of Create, ListContents and Extract while they are not run.
TarIdle ==
    /\ archive = <<>>
    /\ origin = "idle"
    /\ createResult = CreateResult(<<>>, "none", "", 0, 0)
    /\ contents = [listed |-> FALSE, names |-> <<>>]
    /\ status = "idle"
    /\ pos = 0
    /\ totalSize = 0
    /\ fileCount = 0
    /\ warnings = {}
    /\ applied = {}
    /\ touched = {}
    /\ extractRuns = 0

\* The variables of Spec while another specification runs.
FsIdle ==
    /\ fs = <<>>
    /\ umask = 0
    /\ TarIdle

\* The variables of SpecSums while another specification runs.
SumsIdle ==
    /\ smOut = <<>>
    /\ smRuns = 0
    /\ smCreate = "none"
    /\ smEntries = <<>>
    /\ smVerify = "none"
    /\ smPassed = <<>>
    /\ smFailed = <<>>
    /\ smModified = {}

\* The variables of SpecDigest while another specification runs.
DigestIdle ==
    /\ dgPath = <<>>
    /\ dgPc = "idle"
    /\ dgOffset = 0
    /\ dgShort = 0
    /\ dgHash = <<0, 0, 0, 0>>
    /\ dgSum = <<0, 0>>

InitPath ==
    /\ pcName \in EntryNames
    /\ pcDest \in DestDirs
    /\ pcSafe = "unset"
    /\ pcOutcome = "pending"
    /\ LimitsIdle
    /\ FsIdle
    /\ SumsIdle
    /\ DigestIdle
    /\ BuildIdle

\* archive.go 149-152: the first check of Extract's loop body.
ExtractPathCheck ==
    /\ pcOutcome = "pending"
    /\ pcSafe' = isPathSafe(pcName, pcDest)
    /\ pcOutcome' = IF isPathSafe(pcName, pcDest) THEN "checked" ELSE "skipped"
    /\ UNCHANGED <<pcName, pcDest, limitVars, fsVars, sumVars, digestVars,
                   buildVars>>

NextPath == ExtractPathCheck

SpecPath == InitPath /\ [][NextPath]_vars

----------------------------------------------------------------------------
(* Extract's resource ceilings                                             *)

MaxFileSize == 104857600
MaxArchiveSize == 1073741824
MaxFiles == 10000

\* archive.go 154
SizeTooLarge(size) == size > MaxFileSize

\* archive.go 160
ArchiveTooLargeAtCeiling(total) == total >= MaxArchiveSize

ArchiveTooLargeLate(total) == total > MaxArchiveSize + MaxFileSize

ArchiveTooLarge(total) == total > MaxArchiveSize

\* archive.go 165
TooManyFilesLate(count) == count > MaxFiles + 1

TooManyFiles(count) == count > MaxFiles

\* archive.go 148-167: what the loop body decides for one header, given the
\* counters before it: "unsafe" and "large" skip the entry with a warning,
\* "tooLarge" and "tooMany" return an error, "apply" goes on to line 169.
VerdictSizeFirst(name, size, destDir, total, count) ==
    IF SizeTooLarge(size) THEN "large"
    ELSE IF ArchiveTooLarge(total + size) THEN "tooLarge"
    ELSE IF ~isPathSafe(name, destDir) THEN "unsafe"
    ELSE IF TooManyFiles(count + 1) THEN "tooMany"
    ELSE "apply"

VerdictFatalSkip(name, size, destDir, total, count) ==
    IF ~isPathSafe(name, destDir) THEN "unsafe"
    ELSE IF SizeTooLarge(size) THEN "tooLarge"
    ELSE IF ArchiveTooLarge(total + size) THEN "tooLarge"
    ELSE IF TooManyFiles(count + 1) THEN "tooMany"
    ELSE "apply"

Verdict(name, size, destDir, total, count) ==
    IF ~isPathSafe(name, destDir) THEN "unsafe"
    ELSE IF SizeTooLarge(size) THEN "large"
    ELSE IF ArchiveTooLarge(total + size) THEN "tooLarge"
    ELSE IF TooManyFiles(count + 1) THEN "tooMany"
    ELSE "apply"

\* totalSize after the header (line 159 is reached unless the entry is skipped).
TotalAfter(verdict, size, total) ==
    IF verdict \in {"unsafe", "large"} THEN total ELSE total + size

\* fileCount after the header (line 164 is reached unless the entry is
\* skipped or the size ceiling aborted).
CountAfter(verdict, count) ==
    IF verdict \in {"tooMany", "apply"} THEN count + 1 ELSE count

----------------------------------------------------------------------------
(* SpecLimits: Extract's loop over a stream of headers, counters only      *)

MaxStream == 12
LeadMargin == 2

LimitDest == <<"/", "d">>

\* The number of entries it takes to bring totalSize to MaxArchiveSize.
FillEntries == MaxArchiveSize \div MaxFileSize + 1
NameA == <<"a">>
NameUp == <<".", ".", "/", "a">>

\* Headers of the stream: an empty entry, one of exactly MaxFileSize, one a
\* byte larger, one that fills ten MaxFileSize entries up to MaxArchiveSize,
\* and two with an unsafe name, one of them larger than MaxFileSize as well.
LimitEntries ==
    { [name |-> NameA, size |-> 0],
      [name |-> NameA, size |-> MaxFileSize],
      [name |-> NameA, size |-> MaxFileSize + 1],
      [name |-> NameA, size |-> MaxArchiveSize % MaxFileSize],
      [name |-> NameUp, size |-> MaxFileSize],
      [name |-> NameUp, size |-> MaxFileSize + 1] }

\* archive.go 136-137
InitLimits ==
    /\ lmStatus = "running"
    /\ lmTotalSize = 0
    /\ lmFileCount = 0
    /\ lmRead = 0
    /\ lmRun = 0
    /\ lmDeclared = 0
    /\ lmWarned = 0
    /\ lmApplied = 0
    /\ lmAppliedSize = 0
    /\ lmAppliedMax = 0
    /\ lmPassed = 0
    /\ lmPassedSize = 0
    /\ lmLast = [name |-> <<>>, size |-> 0, verdict |-> "none"]
    /\ PathIdle
    /\ FsIdle
    /\ SumsIdle
    /\ DigestIdle
    /\ BuildIdle

\* archive.go 139-175 for a run of n directory entries with safe names and
\* Size 0 at the head of the stream, n <= MaxFiles: each iteration adds 0 to
\* totalSize and 1 to fileCount and none is skipped or aborts.
ExtractDirRun ==
    /\ lmStatus = "running"
    /\ lmRead = 0
    /\ \E n \in {MaxFiles - LeadMargin, MaxFiles - FillEntries} :
        /\ lmRun' = n
        /\ lmRead' = n
        /\ lmFileCount' = lmFileCount + n
        /\ lmApplied' = lmApplied + n
        /\ lmPassed' = lmPassed + n
        /\ lmLast' = [name |-> NameA, size |-> 0, verdict |-> "apply"]
    /\ UNCHANGED <<lmStatus, lmTotalSize, lmDeclared, lmWarned, lmAppliedSize,
                   lmAppliedMax, lmPassedSize, pathVars, fsVars, sumVars, digestVars,
                   buildVars>>

\* archive.go 139-167: one iteration of the loop for the next header.
ExtractStreamEntry ==
    /\ lmStatus = "running"
    /\ lmRead - lmRun < MaxStream
    /\ \E e \in LimitEntries :
        \E v \in {Verdict(e.name, e.size, LimitDest, lmTotalSize, lmFileCount)} :
            /\ lmRead' = lmRead + 1
            /\ lmDeclared' = lmDeclared + e.size
            /\ lmLast' = [name |-> e.name, size |-> e.size, verdict |-> v]
            /\ lmTotalSize' = TotalAfter(v, e.size, lmTotalSize)
            /\ lmFileCount' = CountAfter(v, lmFileCount)
            /\ lmWarned' = IF v \in {"unsafe", "large"} THEN lmWarned + 1
                            ELSE lmWarned
            /\ lmStatus' = IF v \in {"tooLarge", "tooMany"} THEN "error"
                            ELSE "running"
            /\ lmApplied' = IF v = "apply" THEN lmApplied + 1 ELSE lmApplied
            /\ lmAppliedSize' = IF v = "apply" THEN lmAppliedSize + e.size
                                 ELSE lmAppliedSize
            /\ lmAppliedMax' = IF v = "apply" THEN Max(lmAppliedMax, e.size)
                                ELSE lmAppliedMax
            /\ \E passes \in {isPathSafe(e.name, LimitDest)
                                /\ e.size <= MaxFileSize} :
                /\ lmPassed' = IF passes THEN lmPassed + 1 ELSE lmPassed
                /\ lmPassedSize' = IF passes THEN lmPassedSize + e.size
                                    ELSE lmPassedSize
    /\ UNCHANGED <<lmRun, pathVars, fsVars, sumVars, digestVars,
                   buildVars>>

\* archive.go 140-143, 216: io.EOF ends the loop and Extract returns nil.
ExtractStreamEnd ==
    /\ lmStatus = "running"
    /\ lmStatus' = "ok"
    /\ UNCHANGED <<lmTotalSize, lmFileCount, lmRead, lmRun, lmDeclared,
                   lmWarned, lmApplied, lmAppliedSize, lmAppliedMax, lmPassed,
                   lmPassedSize, lmLast, pathVars, fsVars, sumVars, digestVars,
                   buildVars>>

\* archive.go 119-137: the next call of Extract, after the last one has
\* returned; totalSize and fileCount are its own local variables.
ExtractStreamOpen ==
    /\ lmStatus \in {"ok", "error"}
    /\ lmStatus' = "running"
    /\ lmTotalSize' = 0
    /\ lmFileCount' = 0
    /\ lmRead' = 0
    /\ lmRun' = 0
    /\ lmDeclared' = 0
    /\ lmWarned' = 0
    /\ lmApplied' = 0
    /\ lmAppliedSize' = 0
    /\ lmAppliedMax' = 0
    /\ lmPassed' = 0
    /\ lmPassedSize' = 0
    /\ lmLast' = [name |-> <<>>, size |-> 0, verdict |-> "none"]
    /\ UNCHANGED <<pathVars, fsVars, sumVars, digestVars, buildVars>>

NextLimits ==
    ExtractDirRun \/ ExtractStreamEntry \/ ExtractStreamEnd \/ ExtractStreamOpen

SpecLimits == InitLimits /\ [][NextLimits]_vars

----------------------------------------------------------------------------
(* The filesystem                                                          *)
(*                                                                         *)
(* fs maps the absolute path of every existing object (a sequence of path  *)
(* elements, <<>> for "/") to its node.  Files carry an inode number: two  *)
(* paths with the same ino are hard links of one file.                     *)

MaxHops == 4

DirNode(mode) ==
    [kind |-> "dir", mode |-> mode, ino |-> 0, size |-> 0, data |-> <<>>,
     target |-> <<>>]
FileNode(mode, ino, size, data) ==
    [kind |-> "file", mode |-> mode, ino |-> ino, size |-> size,
     data |-> data, target |-> <<>>]
LinkNode(target) ==
    [kind |-> "link", mode |-> 511, ino |-> 0, size |-> 0, data |-> <<>>,
     target |-> target]

\* The bytes of a file: data, repeated up to size where size is larger
\* (the files too large to be written out byte by byte).
Content(node) ==
    IF node.size = Len(node.data) THEN node.data
    ELSE [i \in 1..node.size |-> node.data[((i - 1) % Len(node.data)) + 1]]

\* The owner may read the object (the process owns it and is not root).
Readable(node) == (node.mode \div 256) % 2 = 1

\* The owner may write the object.
Writable(node) == (node.mode \div 128) % 2 = 1

Parent(p) == IF p = <<>> THEN <<>> ELSE SubSeq(p, 1, Len(p) - 1)

IsUnder(p, dir) == Len(p) >= Len(dir) /\ SubSeq(p, 1, Len(dir)) = dir

\* The elements of a cleaned absolute path.
PathOf(str) ==
    LET c == Clean(str)
    IN  IF c = <<Slash>> THEN <<>> ELSE SplitSlash(SubSeq(c, 2, Len(c)))

\* mode &^ umask
RECURSIVE AndNot(_, _)
AndNot(m, u) ==
    IF m = 0 THEN 0
    ELSE (IF m % 2 = 1 /\ u % 2 = 0 THEN 1 ELSE 0) + 2 * AndNot(m \div 2, u \div 2)

\* Path resolution as the kernel does it: elements are looked up one by one
\* from cur, a symbolic link met on the way (and at the end, if followLast)
\* is replaced by its target.  The result is the real path of the object, or
\* of the place where the missing last element would be created.
RECURSIVE ResolveFrom(_, _, _, _, _)
ResolveFrom(f, cur, rest, hops, followLast) ==
    IF rest = <<>> THEN [err |-> "", path |-> cur]
    ELSE LET seg == Head(rest)
             more == Tail(rest)
             p == Append(cur, seg)
         IN  IF seg = <<>> \/ seg = Dot
             THEN ResolveFrom(f, cur, more, hops, followLast)
             ELSE IF seg = DotDot
             THEN ResolveFrom(f, Parent(cur), more, hops, followLast)
             ELSE IF p \notin DOMAIN f
             THEN [err |-> IF more = <<>> THEN "" ELSE "ENOENT", path |-> p]
             ELSE IF f[p].kind = "link" /\ (more # <<>> \/ followLast)
             THEN IF hops = 0 THEN [err |-> "ELOOP", path |-> p]
                  ELSE ResolveFrom(f,
                                   IF IsAbs(f[p].target) THEN <<>> ELSE cur,
                                   SplitSlash(f[p].target) \o more,
                                   hops - 1, followLast)
             ELSE IF f[p].kind # "dir" /\ more # <<>>
             THEN [err |-> "ENOTDIR", path |-> p]
             ELSE ResolveFrom(f, p, more, hops, followLast)

\* stat(2) and lstat(2): the real path of an absolute path.
Stat(f, p) == ResolveFrom(f, <<>>, p, MaxHops, TRUE)
Lstat(f, p) == ResolveFrom(f, <<>>, p, MaxHops, FALSE)

Exists(f, r) == r.err = "" /\ r.path \in DOMAIN f

\* The result of a filesystem call: the error ("" for none), the filesystem
\* after it, and the real paths it created or wrote.
Failed(f, err) == [err |-> err, fs |-> f, made |-> {}]
Done(f, made) == [err |-> "", fs |-> f, made |-> made]

\* os.Mkdir(p, perm)
Mkdir(f, p, perm, mask) ==
    LET r == Lstat(f, p)
    IN  IF r.err # "" THEN Failed(f, r.err)
        ELSE IF r.path \in DOMAIN f THEN Failed(f, "EEXIST")
        ELSE Done((r.path :> DirNode(AndNot(perm, mask))) @@ f, {r.path})

\* os.MkdirAll(p, perm): nothing to do if p is a directory (a symbolic link
\* to one included); otherwise the parent is made first, with the same perm.
RECURSIVE MkdirAll(_, _, _, _)
MkdirAll(f, p, perm, mask) ==
    LET st == Stat(f, p)
    IN  IF Exists(f, st)
        THEN IF f[st.path].kind = "dir" THEN Done(f, {})
             ELSE Failed(f, "ENOTDIR")
        ELSE LET up == IF Len(p) > 1 THEN MkdirAll(f, Parent(p), perm, mask)
                       ELSE Done(f, {})
             IN  IF up.err # "" THEN up
                 ELSE LET mk == Mkdir(up.fs, p, perm, mask)
                          ls == Lstat(up.fs, p)
                      IN  IF mk.err = ""
                          THEN Done(mk.fs, up.made \cup mk.made)
                          ELSE IF Exists(up.fs, ls)
                                  /\ up.fs[ls.path].kind = "dir"
                          THEN Done(up.fs, up.made)
                          ELSE Failed(up.fs, mk.err)

NextIno(f) ==
    1 + Max(0, CHOOSE n \in {0} \cup {f[q].ino : q \in DOMAIN f} :
                   \A q \in DOMAIN f : f[q].ino <= n)

\* os.OpenFile(p, O_CREATE|O_WRONLY|O_TRUNC, perm), io.Copy, Close: a
\* symbolic link at p is followed; an existing file is truncated and keeps
\* its mode, and every hard link of it shows the new content.
WriteFile(f, p, perm, mask, size, data) ==
    LET r == Stat(f, p)
    IN  IF r.err # "" THEN Failed(f, r.err)
        ELSE IF r.path \notin DOMAIN f
        THEN Done((r.path :> FileNode(AndNot(perm, mask), NextIno(f), size, data))
                      @@ f,
                  {r.path})
        ELSE IF f[r.path].kind = "dir" THEN Failed(f, "EISDIR")
        ELSE IF ~Writable(f[r.path]) THEN Failed(f, "EACCES")
        ELSE Done([q \in DOMAIN f |->
                      IF f[q].kind = "file" /\ f[q].ino = f[r.path].ino
                      THEN [f[q] EXCEPT !.size = size, !.data = data]
                      ELSE f[q]],
                  {r.path})

\* os.Symlink(target, p)
Symlink(f, target, p) ==
    LET r == Lstat(f, p)
    IN  IF r.err # "" THEN Failed(f, r.err)
        ELSE IF r.path \in DOMAIN f THEN Failed(f, "EEXIST")
        ELSE IF target = <<>> THEN Failed(f, "ENOENT")
        ELSE Done((r.path :> LinkNode(target)) @@ f, {r.path})

\* os.Link(old, p): neither path's last element is followed.
Link(f, old, p) ==
    LET o == Lstat(f, old)
        r == Lstat(f, p)
    IN  IF o.err # "" THEN Failed(f, o.err)
        ELSE IF o.path \notin DOMAIN f THEN Failed(f, "ENOENT")
        ELSE IF f[o.path].kind = "dir" THEN Failed(f, "EPERM")
        ELSE IF r.err # "" THEN Failed(f, r.err)
        ELSE IF r.path \in DOMAIN f THEN Failed(f, "EEXIST")
        ELSE Done((r.path :> f[o.path]) @@ f, {r.path})

----------------------------------------------------------------------------
(* The container: the sequence of headers (with the content of regular     *)
(* files) that archive/tar writes and reads back                           *)

Header(name, typeflag, mode, size, linkname, data) ==
    [name |-> name, typeflag |-> typeflag, mode |-> mode, size |-> size,
     linkname |-> linkname, data |-> data]

\* The characters of names and contents, each with its byte value.
CharTable ==
    << <<"NUL", 0>>, <<"LF", 10>>, <<"CR", 13>>, <<" ", 32>>, <<".", 46>>,
       <<"/", 47>>, <<"0", 48>>, <<"1", 49>>, <<"2", 50>>, <<"3", 51>>,
       <<"4", 52>>, <<"5", 53>>, <<"6", 54>>, <<"7", 55>>, <<"8", 56>>,
       <<"9", 57>>, <<"a", 97>>, <<"b", 98>>, <<"c", 99>>, <<"d", 100>>,
       <<"e", 101>>, <<"f", 102>>, <<"g", 103>>, <<"h", 104>>, <<"i", 105>>,
       <<"j", 106>>, <<"k", 107>>, <<"l", 108>>, <<"m", 109>>, <<"n", 110>>,
       <<"o", 111>>, <<"p", 112>>, <<"r", 114>>, <<"s", 115>>, <<"t", 116>>,
       <<"u", 117>>, <<"w", 119>>, <<"z", 122>> >>

CharCodes ==
    [c \in { CharTable[i][1] : i \in 1..Len(CharTable) } |->
        CharTable[CHOOSE i \in 1..Len(CharTable) : CharTable[i][1] = c][2]]

CharCode(c) == CharCodes[c]

\* a < b as byte strings (the order of sort.Strings in filepath.Walk).
RECURSIVE StrLess(_, _)
StrLess(a, b) ==
    IF b = <<>> THEN FALSE
    ELSE IF a = <<>> THEN TRUE
    ELSE IF CharCode(a[1]) # CharCode(b[1]) THEN CharCode(a[1]) < CharCode(b[1])
    ELSE StrLess(Tail(a), Tail(b))

RECURSIVE SortedNames(_)
SortedNames(S) ==
    IF S = {} THEN <<>>
    ELSE LET m == CHOOSE x \in S : \A y \in S \ {x} : StrLess(x, y)
         IN  <<m>> \o SortedNames(S \ {m})

ChildNames(f, dir) ==
    { q[Len(q)] : q \in { x \in DOMAIN f : Len(x) = Len(dir) + 1
                                           /\ IsUnder(x, dir) } }

\* archive.go 69-84: tar.FileInfoHeader(info, ""), Name and Linkname.
HeaderOf(f, p, rel) ==
    LET n == f[p]
    IN  CASE n.kind = "dir" ->
               Header(JoinSlash(rel), "dir", n.mode, 0, <<>>, <<>>)
          [] n.kind = "file" ->
               Header(JoinSlash(rel), "reg", n.mode, n.size, <<>>, n.data)
          [] n.kind = "link" ->
               Header(JoinSlash(rel), "symlink", n.mode, 0, n.target, <<>>)

\* filepath.Walk below root: the relative paths of the children in lexical
\* order, each followed by what is below it if it is a directory; symbolic
\* links are not followed.
RECURSIVE WalkBelow(_, _, _, _)
WalkBelow(f, root, rel, names) ==
    IF names = <<>> THEN <<>>
    ELSE LET r == Append(rel, Head(names))
             p == root \o r
             below == IF f[p].kind = "dir"
                      THEN WalkBelow(f, root, r, SortedNames(ChildNames(f, p)))
                      ELSE <<>>
         IN  <<r>> \o below \o WalkBelow(f, root, rel, Tail(names))

\* The objects filepath.Walk(root) hands to its callback after root itself.
Walk(f, root) == WalkBelow(f, root, <<>>, SortedNames(ChildNames(f, root)))

\* archive.go 32-116: the headers Create writes for sourceDir (the root
\* itself is skipped, line 65).
CreateEntries(f, sourceDir) ==
    LET w == Walk(f, sourceDir)
    IN  [i \in 1..Len(w) |-> HeaderOf(f, sourceDir \o w[i], w[i])]

\* archive.go 53-56, 93-102: the walk ends with an error if sourceDir cannot
\* be lstat'ed, a directory under it cannot be listed or a regular file
\* cannot be opened.
WalkFails(f, sourceDir) ==
    \/ ~Exists(f, Lstat(f, sourceDir))
    \/ \E q \in DOMAIN f :
          /\ IsUnder(q, Lstat(f, sourceDir).path)
          /\ f[q].kind \in {"dir", "file"}
          /\ ~Readable(f[q])

RECURSIVE SumSizes(_)
SumSizes(hs) ==
    IF hs = <<>> THEN 0
    ELSE (IF Head(hs).typeflag = "reg" THEN Head(hs).size ELSE 0)
             + SumSizes(Tail(hs))

\* archive.go 262-274: the names ListContents collects.
ListNamesNoDirs(a) ==
    LET RECURSIVE take(_)
        take(i) == IF i > Len(a) THEN <<>>
                   ELSE (IF a[i].typeflag = "dir" THEN <<>> ELSE <<a[i].name>>)
                            \o take(i + 1)
    IN  take(1)

ListNames(a) == [i \in 1..Len(a) |-> a[i].name]

----------------------------------------------------------------------------
(* Extract: what line 169-213 do with one header                           *)

\* The outcome of applying a header: the fatal error ("" for none), the
\* warning printed ("" for none), the filesystem after it and the real paths
\* created or written.
Applied(err, warn, f, made) ==
    [err |-> err, warn |-> warn, fs |-> f, made |-> made]

\* The switch of Extract if it did not create the parent directory of a
\* regular file, a symbolic link or a hard link.
ApplyEntryWithoutParents(f, e, destDir, mask) ==
    LET targetPath == PathOf(Join(destDir, e.name))
    IN  CASE e.typeflag = "dir" ->
               LET r == MkdirAll(f, targetPath, e.mode, mask)
               IN  Applied(r.err, "", r.fs, r.made)
          [] e.typeflag = "reg" ->
               LET w == WriteFile(f, targetPath, e.mode, mask, e.size, e.data)
               IN  Applied(w.err, "", w.fs, w.made)
          [] e.typeflag = "symlink" ->
               LET s == Symlink(f, e.linkname, targetPath)
               IN  Applied("", IF s.err \in {"", "EEXIST"} THEN "" ELSE "symlink",
                           s.fs, s.made)
          [] e.typeflag = "link" ->
               LET l == Link(f, PathOf(Join(destDir, e.linkname)), targetPath)
               IN  Applied("", IF l.err = "" THEN "" ELSE "hardlink",
                           l.fs, l.made)
          [] OTHER -> Applied("", "", f, {})

\* The switch of Extract if a symbolic link or a hard link that cannot be
\* created ended the extraction.
ApplyEntryLinkFatal(f, e, destDir, mask) ==
    LET targetPath == PathOf(Join(destDir, e.name))
        up == MkdirAll(f, Parent(targetPath), 493, mask)
    IN  CASE e.typeflag = "dir" ->
               LET r == MkdirAll(f, targetPath, e.mode, mask)
               IN  Applied(r.err, "", r.fs, r.made)
          [] e.typeflag = "reg" ->
               IF up.err # "" THEN Applied(up.err, "", up.fs, up.made)
               ELSE LET w == WriteFile(up.fs, targetPath, e.mode, mask,
                                       e.size, e.data)
                    IN  Applied(w.err, "", w.fs, up.made \cup w.made)
          [] e.typeflag = "symlink" ->
               IF up.err # "" THEN Applied(up.err, "", up.fs, up.made)
               ELSE LET s == Symlink(up.fs, e.linkname, targetPath)
                    IN  Applied(s.err, "", s.fs, up.made \cup s.made)
          [] e.typeflag = "link" ->
               IF up.err # "" THEN Applied(up.err, "", up.fs, up.made)
               ELSE LET l == Link(up.fs, PathOf(Join(destDir, e.linkname)),
                                  targetPath)
                    IN  Applied(l.err, "", l.fs, up.made \cup l.made)
          [] OTHER -> Applied("", "", f, {})

\* archive.go 169-213: the switch on the type of an entry.
ApplyEntry(f, e, destDir, mask) ==
    LET targetPath == PathOf(Join(destDir, e.name))
        up == MkdirAll(f, Parent(targetPath), 493, mask)
    IN  CASE e.typeflag = "dir" ->
               LET r == MkdirAll(f, targetPath, e.mode, mask)
               IN  Applied(r.err, "", r.fs, r.made)
          [] e.typeflag = "reg" ->
               IF up.err # "" THEN Applied(up.err, "", up.fs, up.made)
               ELSE LET w == WriteFile(up.fs, targetPath, e.mode, mask,
                                       e.size, e.data)
                    IN  Applied(w.err, "", w.fs, up.made \cup w.made)
          [] e.typeflag = "symlink" ->
               IF up.err # "" THEN Applied(up.err, "", up.fs, up.made)
               ELSE LET s == Symlink(up.fs, e.linkname, targetPath)
                    IN  Applied("",
                                IF s.err \in {"", "EEXIST"} THEN "" ELSE "symlink",
                                s.fs, up.made \cup s.made)
          [] e.typeflag = "link" ->
               IF up.err # "" THEN Applied(up.err, "", up.fs, up.made)
               ELSE LET l == Link(up.fs, PathOf(Join(destDir, e.linkname)),
                                  targetPath)
                    IN  Applied("", IF l.err = "" THEN "" ELSE "hardlink",
                                l.fs, up.made \cup l.made)
          [] OTHER -> Applied("", "", f, {})

----------------------------------------------------------------------------
(* Spec: Create, ListContents and Extract on a filesystem                  *)

MaxEntries == 3
MaxRuns == 2

DestDir == <<"/", "d">>
SourceDir == <<"/", "s">>
DestPath == PathOf(DestDir)
SourcePath == PathOf(SourceDir)

\* The paths Create is given: the source directory itself and /t, a
\* symbolic link to it.
SourceLink == <<"/", "t">>
SourceDirs == {SourceDir, SourceLink}

\* "/" with the empty destination /d, the source directory /s and a
\* directory /o outside both that holds the file /o/s.
BaseFs ==
    (<<>> :> DirNode(493))
        @@ (<< <<"d">> >> :> DirNode(493))
        @@ (<< <<"s">> >> :> DirNode(493))
        @@ (<< <<"o">> >> :> DirNode(493))
        @@ (<< <<"o">>, <<"s">> >> :> FileNode(420, 1, 1, <<"s">>))
        @@ (<< <<"t">> >> :> LinkNode(<<"s">>))

\* The objects a source tree is made of: the files a (0644), b/a (0664),
\* a..a, big (one byte above MaxFileSize) and u (0000, not readable), the
\* directory b and the symbolic links l -> b and k -> a (dangling in the
\* trees without b or without a).
SourceObjects ==
    (<< <<"a">> >> :> FileNode(420, 2, 1, <<"a">>))
        @@ (<< <<"b">> >> :> DirNode(493))
        @@ (<< <<"b">>, <<"a">> >> :> FileNode(436, 3, 1, <<"b">>))
        @@ (<< <<"l">> >> :> LinkNode(<<"b">>))
        @@ (<< <<"a", ".", ".", "a">> >> :> FileNode(420, 4, 1, <<"c">>))
        @@ (<< <<"b", "i", "g">> >> :> FileNode(420, 5, MaxFileSize + 1, <<"d">>))
        @@ (<< <<"u">> >> :> FileNode(0, 6, 1, <<"u">>))
        @@ (<< <<"k">> >> :> LinkNode(<<"a">>))

SourceTrees ==
    { t \in SUBSET DOMAIN SourceObjects :
          \A p \in t : Len(p) > 1 => Parent(p) \in t }

FsWithSource(t) ==
    LET paths == DOMAIN BaseFs \cup { SourcePath \o p : p \in t }
    IN  [q \in paths |->
            IF q \in DOMAIN BaseFs THEN BaseFs[q]
            ELSE SourceObjects[SubSeq(q, Len(SourcePath) + 1, Len(q))]]

\* BaseFs without the source directory.
FsWithoutSource == [q \in DOMAIN BaseFs \ {SourcePath} |-> BaseFs[q]]

\* Headers of containers that were not written by Create.
ForeignHeaders ==
    { Header(<<"b">>, "dir", 493, 0, <<>>, <<>>),
      Header(<<"a">>, "reg", 420, 1, <<>>, <<"a">>),
      Header(<<"r">>, "reg", 292, 1, <<>>, <<"r">>),
      Header(<<"b", "/", "a">>, "reg", 420, 1, <<>>, <<"b">>),
      Header(<<"l">>, "symlink", 511, 0, <<"/", "o">>, <<>>),
      Header(<<"l">>, "symlink", 511, 0, <<"b">>, <<>>),
      Header(<<"l", "/", "s">>, "reg", 420, 1, <<>>, <<"z">>),
      Header(<<".", ".", "/", "a">>, "reg", 420, 1, <<>>, <<"u">>),
      Header(<<"b", "i", "g">>, "reg", 420, MaxFileSize + 1, <<>>, <<"d">>),
      Header(<<"h">>, "link", 420, 0, <<".", ".", "/", "o", "/", "s">>, <<>>) }

RECURSIVE HeaderSeqs(_)
HeaderSeqs(n) ==
    IF n = 0 THEN { <<>> }
    ELSE LET shorter == HeaderSeqs(n - 1)
         IN  shorter \cup
             { Append(a, h) : a \in { x \in shorter : Len(x) = n - 1 },
                              h \in ForeignHeaders }

Init ==
    /\ umask \in {0, 18}
    /\ \/ /\ origin = "none"
          /\ archive = <<>>
          /\ \/ \E t \in SourceTrees : fs = FsWithSource(t)
             \/ fs = FsWithoutSource
       \/ /\ origin = "foreign"
          /\ archive \in HeaderSeqs(MaxEntries)
          /\ fs = BaseFs
    /\ createResult = CreateResult(<<>>, "none", "", 0, 0)
    /\ contents = [listed |-> FALSE, names |-> <<>>]
    /\ status = "idle"
    /\ pos = 0
    /\ totalSize = 0
    /\ fileCount = 0
    /\ warnings = {}
    /\ applied = {}
    /\ touched = {}
    /\ extractRuns = 0
    /\ PathIdle
    /\ LimitsIdle
    /\ SumsIdle
    /\ DigestIdle
    /\ BuildIdle

\* archive.go 39, 45, 49: what the deferred tarWriter.Close(),
\* xzWriter.Close() and outFile.Close() may report when the footer of the
\* tar stream, the end of the xz stream or the buffered bytes of the file
\* cannot be written ("" when all three succeed).
CloseErrors == {"", "tar", "xz", "file"}

\* archive.go 32-116: after a walk without error the deferred Close calls
\* run and their errors are dropped; Create returns the result and nil,
\* with the container "unclosed" on disk when one of them failed.
Create ==
    /\ origin = "none"
    /\ \E sourceDir \in SourceDirs :
       \E root \in {PathOf(sourceDir)} :
          IF WalkFails(fs, root)
          THEN /\ origin' = "partial"
               /\ archive' = <<>>
               /\ createResult' = CreateResult(sourceDir, "walk", "", 0, 0)
          ELSE \E hs \in {CreateEntries(fs, root)} :
               \E closeErr \in CloseErrors :
                  /\ origin' = IF closeErr = "" THEN "created" ELSE "unclosed"
                  /\ archive' = hs
                  /\ createResult' =
                         CreateResult(sourceDir, "", closeErr, Len(hs),
                                      SumSizes(hs))
    /\ UNCHANGED <<fs, umask, contents, status, pos, totalSize, fileCount,
                   warnings, applied, touched, extractRuns, pathVars,
                   limitVars, sumVars, digestVars,
                   buildVars>>

\* archive.go 248-275
ListContents ==
    /\ origin \in {"created", "foreign"}
    /\ ~contents.listed
    /\ contents' = [listed |-> TRUE, names |-> ListNames(archive)]
    /\ UNCHANGED <<fs, umask, archive, origin, createResult, extractRuns, status, pos,
                   totalSize, fileCount, warnings, applied, touched, pathVars,
                   limitVars, sumVars, digestVars,
                   buildVars>>

\* archive.go 119-137: a call of Extract, the first one or one more after
\* a call that returned success, into the same destination.
ExtractOpen ==
    /\ origin \in {"created", "foreign"}
    /\ \/ status = "idle"
       \/ status = "ok" /\ extractRuns < MaxRuns
    /\ extractRuns' = extractRuns + 1
    /\ status' = "running"
    /\ pos' = 1
    /\ totalSize' = 0
    /\ fileCount' = 0
    /\ warnings' = {}
    /\ applied' = {}
    /\ touched' = {}
    /\ UNCHANGED <<fs, umask, archive, origin, createResult, contents,
                   pathVars,
                   limitVars, sumVars, digestVars,
                   buildVars>>

\* archive.go 139-214: one iteration of the loop.
ExtractEntry ==
    /\ status = "running"
    /\ pos <= Len(archive)
    /\ \E e \in {archive[pos]} :
       \E v \in {Verdict(e.name, e.size, DestDir, totalSize, fileCount)} :
       \E r \in {IF v = "apply" THEN ApplyEntry(fs, e, DestDir, umask)
                 ELSE Applied("", "", fs, {})} :
           /\ totalSize' = TotalAfter(v, e.size, totalSize)
           /\ fileCount' = CountAfter(v, fileCount)
           /\ fs' = r.fs
           /\ touched' = touched \cup r.made
           /\ applied' = IF v = "apply" THEN applied \cup {pos} ELSE applied
           /\ warnings' =
                  IF v \in {"unsafe", "large"}
                  THEN warnings \cup {[at |-> pos, why |-> v]}
                  ELSE IF r.warn # ""
                  THEN warnings \cup {[at |-> pos, why |-> r.warn]}
                  ELSE warnings
           /\ status' = IF v \in {"tooLarge", "tooMany"} \/ r.err # ""
                        THEN "error" ELSE "running"
           /\ pos' = pos + 1
    /\ UNCHANGED <<umask, archive, origin, createResult, extractRuns, contents, pathVars,
                   limitVars, sumVars, digestVars,
                   buildVars>>

\* archive.go 140-143, 216
ExtractEOF ==
    /\ status = "running"
    /\ pos > Len(archive)
    /\ status' = "ok"
    /\ UNCHANGED <<fs, umask, archive, origin, createResult, extractRuns, contents, pos,
                   totalSize, fileCount, warnings, applied, touched, pathVars,
                   limitVars, sumVars, digestVars,
                   buildVars>>

Next == Create \/ ListContents \/ ExtractOpen \/ ExtractEntry \/ ExtractEOF

Spec == Init /\ [][Next]_vars

----------------------------------------------------------------------------
(* CRC32 (IEEE) and the text of the manifest                               *)
(*                                                                         *)
(* A uint32 is the pair <<high 16 bits, low 16 bits>>.                     *)

RECURSIVE Xor(_, _)
Xor(a, b) ==
    IF a = 0 THEN b
    ELSE IF b = 0 THEN a
    ELSE ((a + b) % 2) + 2 * Xor(a \div 2, b \div 2)

Xor32(x, y) ==
    CHOOSE r \in { <<Xor(v[1], w[1]), Xor(v[2], w[2])>> : v \in {x}, w \in {y} } :
        TRUE

\* x >> 1
Shr32(x) == <<x[1] \div 2, (x[2] \div 2) + 32768 * (x[1] % 2)>>

\* crc32.IEEE, the reversed polynomial 0xedb88320
IEEE == <<60856, 33568>>

\* One bit of the bitwise form of crc32.update.
CrcBit(crc) ==
    CHOOSE r \in { IF v[2] % 2 = 1 THEN Xor32(Shr32(v), IEEE) ELSE Shr32(v) :
                       v \in {crc} } : TRUE

\* The four bytes of a uint32, most significant first.
Bytes32(x) == <<x[1] \div 256, x[1] % 256, x[2] \div 256, x[2] % 256>>

\* crc32.MakeTable(crc32.IEEE): entry n is n after eight bit steps.
CRC32Table ==
    [n \in 0..255 |->
        Bytes32(CrcBit(CrcBit(CrcBit(CrcBit(CrcBit(CrcBit(CrcBit(CrcBit(
            <<0, n>>)))))))))]

\* a ^ b on four bits and on bytes
XorNibble == [a \in 0..15 |-> [b \in 0..15 |-> Xor(a, b)]]

XorByte(a, b) ==
    16 * XorNibble[a \div 16][b \div 16] + XorNibble[a % 16][b % 16]

\* crc = tab[byte(crc) ^ b] ^ (crc >> 8), on the four bytes of crc.
CrcByte(crc, byte) ==
    CHOOSE r \in { <<t[1], XorByte(t[2], v[1]), XorByte(t[3], v[2]),
                     XorByte(t[4], v[3])>> :
                       t \in {CRC32Table[XorByte(crc[4], byte)]}, v \in {crc} } :
        TRUE

\* hash.Write(p) on the register of the digest (kept inverted): the bytes
\* of p one after the other, here as the first half of p and then the rest.
RECURSIVE CrcUpdate(_, _)
CrcUpdate(crc, data) ==
    IF data = <<>> THEN crc
    ELSE IF Len(data) = 1 THEN CrcByte(crc, CharCode(data[1]))
    ELSE CHOOSE r \in
             { CrcUpdate(v, SubSeq(d, (Len(d) \div 2) + 1, Len(d))) :
                   v \in {CrcUpdate(crc, SubSeq(data, 1, Len(data) \div 2))},
                   d \in {data} } : TRUE

\* crc32.Checksum(data, CRC32Table): the register starts at ^0 and is
\* inverted at the end.
CalculateCRC32Bytes(data) ==
    CHOOSE r \in { <<(255 - v[1]) * 256 + (255 - v[2]),
                     (255 - v[3]) * 256 + (255 - v[4])>> :
                       v \in {CrcUpdate(<<255, 255, 255, 255>>, data)} } : TRUE

\* CalculateCRC32(filePath): os.Open follows symbolic links; reading a
\* directory fails; the digest is that of all the bytes read.
CalculateCRC32(f, p) ==
    LET st == Stat(f, p)
    IN  IF ~Exists(f, st) \/ ~Readable(f[st.path])
        THEN [err |-> "open", sum |-> <<0, 0>>]
        ELSE IF f[st.path].kind # "file" THEN [err |-> "read", sum |-> <<0, 0>>]
        ELSE [err |-> "", sum |-> CalculateCRC32Bytes(Content(f[st.path]))]

HexDigits ==
    <<"0", "1", "2", "3", "4", "5", "6", "7", "8", "9", "a", "b", "c", "d",
      "e", "f">>

\* "%04x" of a 16-bit half.
Hex4(n) ==
    <<HexDigits[(n \div 4096) + 1], HexDigits[((n \div 256) % 16) + 1],
      HexDigits[((n \div 16) % 16) + 1], HexDigits[(n % 16) + 1]>>

\* fmt: "%08x" of a uint32
Fmt08x(x) == Hex4(x[1]) \o Hex4(x[2])

IsHexDigit(c) == \E i \in 1..16 : HexDigits[i] = c

HexValue(c) == (CHOOSE i \in 1..16 : HexDigits[i] = c) - 1

RECURSIVE HexNumber(_)
HexNumber(ds) ==
    IF ds = <<>> THEN 0
    ELSE 16 * HexNumber(SubSeq(ds, 1, Len(ds) - 1)) + HexValue(ds[Len(ds)])

RECURSIVE SkipSpace(_)
SkipSpace(s) == IF s # <<>> /\ Head(s) = " " THEN SkipSpace(Tail(s)) ELSE s

RECURSIVE LeadingHex(_)
LeadingHex(s) ==
    IF s # <<>> /\ IsHexDigit(Head(s)) THEN <<Head(s)>> \o LeadingHex(Tail(s))
    ELSE <<>>

RECURSIVE DropZeros(_)
DropZeros(ds) == IF ds # <<>> /\ Head(ds) = "0" THEN DropZeros(Tail(ds)) ELSE ds

\* fmt.Sscanf(s, "%x", &expectedSum) with a uint32: leading spaces are
\* skipped, the longest run of hexadecimal digits is the token (what follows
\* it is left unread); no digit, or a value that does not fit 32 bits, is an
\* error.
SscanfHex(s) ==
    LET tok == LeadingHex(SkipSpace(s))
        sig == DropZeros(tok)
        pad == [i \in 1..(8 - Len(sig)) |-> "0"] \o sig
    IN  IF tok = <<>> \/ Len(sig) > 8 THEN [err |-> TRUE, sum |-> <<0, 0>>]
        ELSE [err |-> FALSE,
              sum |-> <<HexNumber(SubSeq(pad, 1, 4)), HexNumber(SubSeq(pad, 5, 8))>>]

\* part_002 99: fmt.Fprintf(file, "%08x  %s\n", entry.Checksum, entry.Path)
FormatEntry(e) == Fmt08x(e.Checksum) \o <<" ", " ">> \o e.Path \o <<"LF">>

RECURSIVE ManifestText(_)
ManifestText(entries) ==
    IF entries = <<>> THEN <<>>
    ELSE FormatEntry(Head(entries)) \o ManifestText(Tail(entries))

\* bufio.ScanLines drops one trailing carriage return of a line.
DropCR(line) ==
    IF line # <<>> /\ line[Len(line)] = "CR" THEN SubSeq(line, 1, Len(line) - 1)
    ELSE line

\* The tokens of bufio.Scanner with bufio.ScanLines: the text is cut at every
\* newline; what follows the last newline is a line if it is not empty.
RECURSIVE ScanLines(_)
ScanLines(text) ==
    IF text = <<>> THEN <<>>
    ELSE IF \E i \in 1..Len(text) : text[i] = "LF"
    THEN LET i == CHOOSE k \in 1..Len(text) :
                      /\ text[k] = "LF"
                      /\ \A j \in 1..(k - 1) : text[j] # "LF"
         IN  <<DropCR(SubSeq(text, 1, i - 1))>>
                 \o ScanLines(SubSeq(text, i + 1, Len(text)))
    ELSE <<DropCR(text)>>

\* strings.SplitN(line, "  ", 2)
SplitTwoSpaces(line) ==
    IF Contains(line, <<" ", " ">>)
    THEN LET i == CHOOSE k \in 1..(Len(line) - 1) :
                      /\ SubSeq(line, k, k + 1) = <<" ", " ">>
                      /\ \A j \in 1..(k - 1) : SubSeq(line, j, j + 1) # <<" ", " ">>
         IN  <<SubSeq(line, 1, i - 1), SubSeq(line, i + 2, Len(line))>>
    ELSE <<line>>

----------------------------------------------------------------------------
(* SpecSums: CreateCRC32Sums and VerifyCRC32Sums on a filesystem           *)

MaxSumRuns == 2
MaxLines == 2

DataDir == <<"/", "m">>
DataPath == PathOf(DataDir)

\* The manifest inside the directory it describes (as in the package's
\* tests) or next to it (as the builder places it).
OutPaths == { <<"/", "m", "/", "c">>, <<"/", "c">> }

\* The objects a data directory is made of: the files a ("hello"), b/a
\* (empty), a file with a newline in its name, one with a carriage return at
\* the end of its name, one with two spaces in its name ("plumless"), the
\* directory b and the symbolic link l -> a.
DataObjects ==
    (<< <<"a">> >> :> FileNode(420, 2, 5, <<"h", "e", "l", "l", "o">>))
        @@ (<< <<"b">> >> :> DirNode(493))
        @@ (<< <<"b">>, <<"a">> >> :> FileNode(420, 3, 0, <<>>))
        @@ (<< <<"a", "LF", "b">> >> :> FileNode(420, 4, 1, <<"a">>))
        @@ (<< <<"a", "CR">> >> :> FileNode(420, 5, 1, <<"b">>))
        @@ (<< <<"a", " ", " ", "a">> >> :>
                FileNode(420, 6, 8, <<"p", "l", "u", "m", "l", "e", "s", "s">>))
        @@ (<< <<"l">> >> :> LinkNode(<<"a">>))

\* What ModifyFile writes: "z", and "buckeroo", whose CRC32 is that of
\* "plumless".
ModifiedContents ==
    { <<"z">>, <<"b", "u", "c", "k", "e", "r", "o", "o">> }

DataTrees ==
    { t \in SUBSET DOMAIN DataObjects :
          \A p \in t : Len(p) > 1 => Parent(p) \in t }

FsWithData(t) ==
    LET base == (<<>> :> DirNode(493)) @@ (DataPath :> DirNode(493))
        paths == DOMAIN base \cup { DataPath \o p : p \in t }
    IN  [q \in paths |->
            IF q \in DOMAIN base THEN base[q]
            ELSE DataObjects[SubSeq(q, Len(DataPath) + 1, Len(q))]]

\* The text of a manifest: its lines, each ended by a newline.
RECURSIVE TextOf(_)
TextOf(lines) ==
    IF lines = <<>> THEN <<>>
    ELSE Head(lines) \o <<"LF">> \o TextOf(Tail(lines))

HelloSum == <<"3", "6", "1", "0", "a", "6", "8", "6">>

\* Lines of manifests that CreateCRC32Sums did not write.  The first one is
\* the record of a ("hello"); the others have a wrong checksum, the
\* directory b or the missing n as path, a checksum that is no number, a
\* checksum followed by other characters, one space or no path, nothing
\* before the two spaces, a space in front, three fields, and no character.
ForeignLines ==
    { HelloSum \o <<" ", " ", "a">>,
      <<"0", "0", "0", "0", "0", "0", "0", "0", " ", " ", "a">>,
      HelloSum \o <<" ", " ", "b">>,
      HelloSum \o <<" ", " ", "n">>,
      <<"z", "z", " ", " ", "a">>,
      HelloSum \o <<"z", "z", " ", " ", "a">>,
      HelloSum \o <<" ", "a">>,
      HelloSum,
      <<" ", " ", "a">>,
      <<" ">> \o HelloSum \o <<" ", " ", "a">>,
      HelloSum \o <<" ", " ", "a", " ", " ", "a">>,
      <<>> }

RECURSIVE LineSeqs(_)
LineSeqs(n) ==
    IF n = 0 THEN { <<>> }
    ELSE LET shorter == LineSeqs(n - 1)
         IN  shorter \cup
             { Append(ls, l) : ls \in { x \in shorter : Len(x) = n - 1 },
                              l \in ForeignLines }

\* The directory the foreign manifests are verified against: the files a
\* and b/a.
ForeignTree == { << <<"a">> >>, << <<"b">> >>, << <<"b">>, <<"a">> >> }

\* Either a directory for CreateCRC32Sums and no manifest yet, or a
\* manifest written by someone else at /c, or the directory itself given
\* as the manifest.
InitSums ==
    /\ umask = 18
    /\ \/ /\ \E t \in DataTrees : fs = FsWithData(t)
          /\ smOut \in OutPaths
          /\ smCreate = "none"
       \/ /\ \E ls \in LineSeqs(MaxLines) :
                fs = WriteFile(FsWithData(ForeignTree), PathOf(<<"/", "c">>),
                               438, umask, Len(TextOf(ls)), TextOf(ls)).fs
          /\ smOut = <<"/", "c">>
          /\ smCreate = "foreign"
       \/ /\ fs = FsWithData(ForeignTree)
          /\ smOut = DataDir
          /\ smCreate = "foreign"
    /\ smRuns = 0
    /\ smEntries = <<>>
    /\ smVerify = "none"
    /\ smPassed = <<>>
    /\ smFailed = <<>>
    /\ smModified = {}
    /\ TarIdle
    /\ PathIdle
    /\ LimitsIdle
    /\ DigestIdle
    /\ BuildIdle

Entry(checksum, path) == [Checksum |-> checksum, Path |-> path]

\* part_002 60-85: the callback of filepath.Walk over the walked objects;
\* the first digest that fails ends the walk with its error.
RECURSIVE SumEntries(_, _, _)
SumEntries(f, directory, w) ==
    IF w = <<>> THEN [err |-> "", entries |-> <<>>]
    ELSE LET p == directory \o Head(w)
         IN  IF f[p].kind = "dir" THEN SumEntries(f, directory, Tail(w))
             ELSE LET c == CalculateCRC32(f, p)
                      rest == SumEntries(f, directory, Tail(w))
                  IN  IF c.err # "" THEN [err |-> c.err, entries |-> <<>>]
                      ELSE IF rest.err # "" THEN rest
                      ELSE [err |-> "",
                            entries |-> <<Entry(c.sum, JoinSlash(Head(w)))>>
                                            \o rest.entries]

\* part_002 92-105: the manifest has been written with outcome w.
SumsWritten(w, entries) ==
    [err |-> w.err, fs |-> w.fs,
     entries |-> IF w.err = "" THEN entries ELSE <<>>]

\* part_002 87-105: the manifest text of the entries is written.
SumsSaved(f, outputFile, mask, entries, text) ==
    SumsWritten(WriteFile(f, outputFile, 438, mask, Len(text), text), entries)

\* SumsWalked if os.Create(outputPath) came before the walk.
SumsWalkedAfterCreate(f, outputFile, mask, r) ==
    IF r.err # ""
    THEN [err |-> r.err, fs |-> WriteFile(f, outputFile, 438, mask, 0, <<>>).fs,
          entries |-> <<>>]
    ELSE SumsSaved(f, outputFile, mask, r.entries, ManifestText(r.entries))

\* part_002 83-105: the walk has returned r.
SumsWalked(f, outputFile, mask, r) ==
    IF r.err # "" THEN [err |-> r.err, fs |-> f, entries |-> <<>>]
    ELSE SumsSaved(f, outputFile, mask, r.entries, ManifestText(r.entries))

\* part_002 57-106: what CreateCRC32Sums(directory, outputFile) returns and
\* the filesystem it leaves.
CreateSums(f, directory, outputFile, mask) ==
    SumsWalked(f, outputFile, mask,
               SumEntries(f, directory, Walk(f, directory)))

\* part_002 57-106
CreateCRC32Sums ==
    /\ smCreate # "foreign"
    /\ smRuns < MaxSumRuns
    /\ smRuns' = smRuns + 1
    /\ \E r \in {CreateSums(fs, DataPath, PathOf(smOut), umask)} :
           /\ fs' = r.fs
           /\ smCreate' = IF r.err = "" THEN "ok" ELSE "error"
           /\ smEntries' = r.entries
    /\ smVerify' = "none"
    /\ smPassed' = <<>>
    /\ smFailed' = <<>>
    /\ smModified' = {}
    /\ UNCHANGED <<umask, smOut, tarVars, pathVars, limitVars, digestVars,
                   buildVars>>

\* The loop of VerifyCRC32Sums if it ended at the first file that fails.
RECURSIVE VerifyLinesStopAtFailure(_, _, _)
VerifyLinesStopAtFailure(f, baseDir, lines) ==
    IF lines = <<>> THEN [passed |-> <<>>, failed |-> <<>>]
    ELSE LET line == Head(lines)
             rest == VerifyLinesStopAtFailure(f, baseDir, Tail(lines))
             parts == SplitTwoSpaces(line)
             expected == SscanfHex(parts[1])
             actual == CalculateCRC32(f, PathOf(Join(baseDir, parts[2])))
         IN  IF line = <<>> \/ Len(parts) # 2 THEN rest
             ELSE IF ~expected.err /\ actual = [err |-> "", sum |-> expected.sum]
             THEN [rest EXCEPT !.passed = <<parts[2]>> \o rest.passed]
             ELSE [passed |-> <<>>, failed |-> <<parts[2]>>]

\* part_002 119-149: the loop over the lines of the manifest.
RECURSIVE VerifyLines(_, _, _)
VerifyLines(f, baseDir, lines) ==
    IF lines = <<>> THEN [passed |-> <<>>, failed |-> <<>>]
    ELSE LET line == Head(lines)
             rest == VerifyLines(f, baseDir, Tail(lines))
             parts == SplitTwoSpaces(line)
             expected == SscanfHex(parts[1])
             actual == CalculateCRC32(f, PathOf(Join(baseDir, parts[2])))
         IN  IF line = <<>> \/ Len(parts) # 2 THEN rest
             ELSE IF ~expected.err /\ actual = [err |-> "", sum |-> expected.sum]
             THEN [rest EXCEPT !.passed = <<parts[2]>> \o rest.passed]
             ELSE [rest EXCEPT !.failed = <<parts[2]>> \o rest.failed]

\* part_002 109-152: what VerifyCRC32Sums(sumsFile, baseDir) returns.
VerifySums(f, sumsFile, baseDir) ==
    LET st == Stat(f, PathOf(sumsFile))
    IN  IF Exists(f, st) /\ f[st.path].kind = "file" /\ Readable(f[st.path])
        THEN CHOOSE res \in
                 { [err |-> "", passed |-> r.passed, failed |-> r.failed] :
                     r \in {VerifyLines(f, baseDir,
                                        ScanLines(Content(f[st.path])))} } :
                 TRUE
        ELSE [err |-> "open", passed |-> <<>>, failed |-> <<>>]

\* part_002 109-152
VerifyCRC32Sums ==
    /\ smVerify = "none"
    /\ \E r \in {VerifySums(fs, smOut, DataDir)} :
          /\ smVerify' = IF r.err = "" THEN "ok" ELSE "error"
          /\ smPassed' = r.passed
          /\ smFailed' = r.failed
    /\ UNCHANGED <<fs, umask, smOut, smRuns, smCreate, smEntries, smModified,
                   tarVars, pathVars, limitVars, digestVars,
                   buildVars>>

\* crc32_test.go 137-139: os.WriteFile on one file of the directory after
\* the manifest was written, with bytes other than the ones it holds.
ModifyFile ==
    /\ smCreate = "ok"
    /\ smVerify = "none"
    /\ smModified = {}
    /\ \E q \in DOMAIN fs, d \in ModifiedContents :
          /\ IsUnder(q, DataPath)
          /\ fs[q].kind = "file"
          /\ q # Stat(fs, PathOf(smOut)).path
          /\ d # fs[q].data
          /\ fs' = WriteFile(fs, q, 420, umask, Len(d), d).fs
          /\ smModified' = smModified \cup {q}
    /\ UNCHANGED <<umask, smOut, smRuns, smCreate, smEntries, smVerify,
                   smPassed, smFailed, tarVars, pathVars, limitVars, digestVars,
                   buildVars>>

\* part_002 20-23: a file of the directory loses its read permission after
\* the manifest was written, so that os.Open fails in the next digest of it.
ChmodFile ==
    /\ smCreate = "ok"
    /\ smVerify = "none"
    /\ smModified = {}
    /\ smRuns < MaxSumRuns
    /\ \E q \in DOMAIN fs :
          /\ IsUnder(q, DataPath)
          /\ fs[q].kind = "file"
          /\ q # Stat(fs, PathOf(smOut)).path
          /\ fs' = [p \in DOMAIN fs |->
                       IF fs[p].kind = "file" /\ fs[p].ino = fs[q].ino
                       THEN [fs[p] EXCEPT !.mode = 0]
                       ELSE fs[p]]
          /\ smModified' = smModified \cup {q}
    /\ UNCHANGED <<umask, smOut, smRuns, smCreate, smEntries, smVerify,
                   smPassed, smFailed, tarVars, pathVars, limitVars, digestVars,
                   buildVars>>

NextSums == CreateCRC32Sums \/ VerifyCRC32Sums \/ ModifyFile \/ ChmodFile

SpecSums == InitSums /\ [][NextSums]_vars

----------------------------------------------------------------------------
(* SpecDigest: CalculateCRC32 of one file, read by read                    *)

MaxShort == 2

\* part_002 27: buf := make([]byte, 64*1024)
ChunkSize == 65536

Min(a, b) == IF a <= b THEN a ELSE b

Hello == <<"h", "e", "l", "l", "o">>
HelloWorld == Hello \o <<" ", "w", "o", "r", "l", "d">>

\* The files digested: of no byte, of one byte, "hello", "hello world", and
\* one of a byte more than the read buffer holds (all of them "a").
DigestFiles ==
    { FileNode(420, 1, 0, <<>>), FileNode(420, 1, 1, <<"a">>),
      FileNode(420, 1, 5, Hello), FileNode(420, 1, 11, HelloWorld),
      FileNode(420, 1, ChunkSize + 1, <<"a">>) }

\* /m holds the directory b and one file, named a or a..a.
FsWithFile(name, file) ==
    (<<>> :> DirNode(493))
        @@ (DataPath :> DirNode(493))
        @@ (Append(DataPath, <<"b">>) :> DirNode(493))
        @@ (Append(DataPath, name) :> file)

InitDigest ==
    /\ \E name \in { <<"a">>, <<"a", ".", ".", "a">> }, file \in DigestFiles :
          fs = FsWithFile(name, file)
    /\ umask = 18
    /\ dgPath \in { DataDir \o <<"/", "a">>, DataDir \o <<"/", "a", ".", ".", "a">>,
                    DataDir \o <<"/", "b">> }
    /\ dgPc = "start"
    /\ dgOffset = 0
    /\ dgShort = 0
    /\ dgHash = <<0, 0, 0, 0>>
    /\ dgSum = <<0, 0>>
    /\ TarIdle
    /\ PathIdle
    /\ LimitsIdle
    /\ SumsIdle
    /\ BuildIdle

\* The file dgPath names and its bytes.
DigestFile == fs[Stat(fs, PathOf(dgPath)).path]

DigestData == Content(DigestFile)

\* part_002 20-27: os.Open fails on a missing file; a directory opens and
\* fails at its first Read (line 37-39).
DigestOpen ==
    /\ dgPc = "start"
    /\ IF Exists(fs, Stat(fs, PathOf(dgPath))) /\ DigestFile.kind = "file"
       THEN /\ dgPc' = "reading"
            /\ dgHash' = <<255, 255, 255, 255>>
       ELSE /\ dgPc' = "error"
            /\ dgHash' = dgHash
    /\ UNCHANGED <<dgPath, dgOffset, dgShort, dgSum, fsVars, pathVars,
                   limitVars, sumVars,
                   buildVars>>

\* The numbers of bytes a Read may return with left bytes to come: as many
\* as the buffer holds, or fewer (at most MaxShort times, and then at most
\* MaxShort bytes).
ReadSizes(left, short) ==
    { Min(ChunkSize, left) } \cup
        { n \in 1..MaxShort : n < Min(ChunkSize, left) /\ short < MaxShort }

\* A loop of CalculateCRC32 that digested every chunk on its own.
DigestReadAlone ==
    /\ dgPc = "reading"
    /\ dgOffset < DigestFile.size
    /\ \E n \in ReadSizes(DigestFile.size - dgOffset, dgShort) :
          /\ dgHash' = CrcUpdate(<<255, 255, 255, 255>>,
                                 SubSeq(DigestData, dgOffset + 1, dgOffset + n))
          /\ dgOffset' = dgOffset + n
          /\ dgShort' = IF n < Min(ChunkSize, DigestFile.size - dgOffset)
                        THEN dgShort + 1 ELSE dgShort
    /\ UNCHANGED <<dgPath, dgPc, dgSum, fsVars, pathVars, limitVars, sumVars,
                   buildVars>>

\* part_002 29-33: file.Read returns n > 0 bytes, hash.Write(buf[:n]).
DigestRead ==
    /\ dgPc = "reading"
    /\ dgOffset < DigestFile.size
    /\ \E n \in ReadSizes(DigestFile.size - dgOffset, dgShort) :
          /\ dgHash' = CrcUpdate(dgHash,
                                 SubSeq(DigestData, dgOffset + 1, dgOffset + n))
          /\ dgOffset' = dgOffset + n
          /\ dgShort' = IF n < Min(ChunkSize, DigestFile.size - dgOffset)
                        THEN dgShort + 1 ELSE dgShort
    /\ UNCHANGED <<dgPath, dgPc, dgSum, fsVars, pathVars, limitVars, sumVars,
                   buildVars>>

\* part_002 34-36, 42: file.Read returns 0, io.EOF; hash.Sum32().
DigestEOF ==
    /\ dgPc = "reading"
    /\ dgOffset = DigestFile.size
    /\ dgPc' = "done"
    /\ dgSum' = <<(255 - dgHash[1]) * 256 + (255 - dgHash[2]),
                  (255 - dgHash[3]) * 256 + (255 - dgHash[4])>>
    /\ UNCHANGED <<dgPath, dgOffset, dgShort, dgHash, fsVars, pathVars,
                   limitVars, sumVars,
                   buildVars>>

NextDigest == DigestOpen \/ DigestRead \/ DigestEOF

SpecDigest == InitDigest /\ [][NextDigest]_vars

----------------------------------------------------------------------------
(* The Builder (SpecBuild): CreatePackage of a source directory,           *)
(* ExtractPackageTo into a destination that does not exist yet and         *)
(* VerifyChecksums of what was extracted, each once and in any order.      *)

DataName == <<"d", "a", "t", "a">>
HomeName == <<"h", "o", "m", "e">>
SumsName == <<"c", "r", "c", "3", "2", "s", "u", "m", "s">>
HomeSumsName == SumsName \o <<".">> \o HomeName
MetadataName ==
    <<"m", "e", "t", "a", "d", "a", "t", "a", ".", "j", "s", "o", "n">>

\* The objects a package's source is made of: data/ with the files a and
\* a..a and the dangling link l, home/ with the file a and the dangling
\* link l.
BuildObjects ==
    (<<DataName>> :> DirNode(493))
        @@ (<<DataName, <<"a">> >> :> FileNode(420, 2, Len(Hello), Hello))
        @@ (<<DataName, <<"a", ".", ".", "a">> >> :> FileNode(420, 3, 1, <<"b">>))
        @@ (<<DataName, <<"l">> >> :> LinkNode(<<"n">>))
        @@ (<<HomeName>> :> DirNode(493))
        @@ (<<HomeName, <<"a">> >> :> FileNode(384, 4, 1, <<"c">>))
        @@ (<<HomeName, <<"l">> >> :> LinkNode(<<"n">>))

BuildTrees ==
    { t \in SUBSET DOMAIN BuildObjects :
          \A q \in t : Len(q) > 1 => Parent(q) \in t }

\* The root with the source directory /s and the regular file /f; the
\* destination /d does not exist.
FsForBuild(t) ==
    LET base == (<<>> :> DirNode(493))
                    @@ (<< <<"s">> >> :> DirNode(493))
                    @@ (<< <<"f">> >> :> FileNode(420, 1, 1, <<"f">>))
        paths == DOMAIN base \cup { SourcePath \o q : q \in t }
    IN  [q \in paths |->
            IF q \in DOMAIN base THEN base[q]
            ELSE BuildObjects[SubSeq(q, Len(SourcePath) + 1, Len(q))]]

\* The paths given as sourceDir: the source directory, a regular file and
\* a path that does not exist.
BuildSources == { SourceDir, <<"/", "f">>, <<"/", "n">> }

\* The paths given as the package: /p, and /f/p below a regular file.
BuildPackages == { <<"/", "p">>, <<"/", "f", "/", "p">> }

InitBuild ==
    /\ \E t \in BuildTrees, src \in BuildSources :
          /\ src = SourceDir \/ t = {}
          /\ fs = FsForBuild(t)
          /\ bdSource = src
    /\ bdPkg \in BuildPackages
    /\ umask = 18
    /\ archive = <<>>
    /\ origin = "none"
    /\ createResult = CreateResult(<<>>, "none", "", 0, 0)
    /\ contents = [listed |-> FALSE, names |-> <<>>]
    /\ status = "idle"
    /\ pos = 0
    /\ totalSize = 0
    /\ fileCount = 0
    /\ warnings = {}
    /\ applied = {}
    /\ touched = {}
    /\ extractRuns = 0
    /\ bdCreate = "none"
    /\ bdWarned = {}
    /\ bdExtract = "none"
    /\ bvResult = "none"
    /\ bvVerify = [err |-> "", passed |-> <<>>, failed |-> <<>>]
    /\ bvOut = <<>>
    /\ bdLog = <<>>
    /\ PathIdle
    /\ LimitsIdle
    /\ SumsIdle
    /\ DigestIdle

\* os.IsNotExist of the error of a Stat.
IsNotExist(f, st) == ~Exists(f, st) /\ st.err \in {"", "ENOENT"}

\* os.Stat(p) succeeds and info.IsDir().
IsDir(f, p) ==
    LET st == Stat(f, p)
    IN  Exists(f, st) /\ f[st.path].kind = "dir"

\* What a step of CreatePackage leaves: its error, the filesystem and the
\* warnings printed so far.
Built(err, f, warned) == [err |-> err, fs |-> f, warned |-> warned]

\* builder.go 68-70: a failure for data/ is returned.
Returned(r) == Built(IF r.err = "" THEN "" ELSE "checksums", r.fs, {})

\* builder.go 60-75: the manifest of data/.
DataSums(f, sourceDir, mask) ==
    IF IsDir(f, PathOf(Join(sourceDir, DataName)))
    THEN Returned(CreateSums(f, PathOf(Join(sourceDir, DataName)),
                             PathOf(Join(sourceDir, SumsName)), mask))
    ELSE Built("", f, {})

\* builder.go 84-86: a failure for home/ is a warning.
Warned(r) == Built("", r.fs, IF r.err = "" THEN {} ELSE {"home"})

\* builder.go 77-89: the manifest of home/.
HomeSums(f, sourceDir, mask) ==
    IF IsDir(f, PathOf(Join(sourceDir, HomeName)))
    THEN Warned(CreateSums(f, PathOf(Join(sourceDir, HomeName)),
                           PathOf(Join(sourceDir, HomeSumsName)), mask))
    ELSE Built("", f, {})

\* What CreatePackage leaves: its error, the filesystem, the warnings, and
\* the archive at outputPath ("none" if it was not touched).
Packaged(err, f, warned, made, headers) ==
    [err |-> err, fs |-> f, warned |-> warned, origin |-> made,
     headers |-> headers]

\* archive.go 53-115 as CreatePackage calls it, once os.Create(archivePath)
\* (line 34) has returned out.
Archived(out, root, warned) ==
    IF out.err # "" THEN Packaged("archive", out.fs, warned, "none", <<>>)
    ELSE IF WalkFails(out.fs, root)
    THEN Packaged("archive", out.fs, warned, "partial", <<>>)
    ELSE Packaged("", out.fs, warned, "created", CreateEntries(out.fs, root))

\* builder.go 77-96: CreatePackage once the manifest of home/ is done.
WithHome(h, sourceDir, outputPath, mask, warned) ==
    Archived(WriteFile(h.fs, PathOf(outputPath), 438, mask, 0, <<>>),
             PathOf(sourceDir), warned \cup h.warned)

\* builder.go 60-96: CreatePackage once the manifest of data/ is done.
WithData(d, sourceDir, outputPath, mask, warned) ==
    IF d.err # "" THEN Packaged(d.err, d.fs, warned, "none", <<>>)
    ELSE WithHome(HomeSums(d.fs, sourceDir, mask), sourceDir, outputPath,
                  mask, warned)

\* builder.go 47-49: the warning for a source without metadata.json (the
\* sources of this specification have none).
MetadataWarning(f, sourceDir) ==
    IF IsNotExist(f, Stat(f, PathOf(Join(sourceDir, MetadataName))))
    THEN {"metadata"} ELSE {}

\* builder.go 34-102: CreatePackage(sourceDir, outputPath).
PackageOf(f, sourceDir, outputPath, mask) ==
    IF ~IsDir(f, PathOf(sourceDir))
    THEN Packaged("source", f, {}, "none", <<>>)
    ELSE WithData(DataSums(f, sourceDir, mask), sourceDir, outputPath, mask,
                  MetadataWarning(f, sourceDir))

\* builder.go 34-102
CreatePackage ==
    /\ bdCreate = "none"
    /\ \E r \in {PackageOf(fs, bdSource, bdPkg, umask)} :
          /\ bdCreate' = IF r.err = "" THEN "ok" ELSE "error"
          /\ bdWarned' = r.warned
          /\ fs' = r.fs
          /\ origin' = IF r.origin = "none" THEN origin ELSE r.origin
          /\ archive' = IF r.origin = "none" THEN archive ELSE r.headers
    /\ bdLog' = Append(bdLog, "CreatePackage")
    /\ UNCHANGED <<umask, createResult, extractRuns, contents, status, pos, totalSize,
                   fileCount, warnings, applied, touched, bdSource, bdPkg,
                   bdExtract, bvResult, bvVerify, bvOut, pathVars, limitVars,
                   sumVars, digestVars>>

\* archive.go 139-216: the loop of Extract from header i on, with the
\* first fatal error or none and the filesystem it leaves.
RECURSIVE ExtractFrom(_, _, _, _, _, _, _)
RECURSIVE ExtractChecked(_, _, _, _, _, _, _, _)
RECURSIVE ExtractApplied(_, _, _, _, _, _, _)

\* archive.go 171-213: header i has been applied with outcome r.
ExtractApplied(r, hs, i, total, count, destDir, mask) ==
    IF r.err # "" THEN [err |-> r.err, fs |-> r.fs]
    ELSE ExtractFrom(r.fs, hs, i + 1, total, count, destDir, mask)

\* archive.go 149-169: header i has passed the checks with verdict v.
ExtractChecked(f, hs, i, total, count, destDir, mask, v) ==
    IF v \in {"tooLarge", "tooMany"} THEN [err |-> v, fs |-> f]
    ELSE ExtractApplied(IF v = "apply"
                        THEN ApplyEntry(f, hs[i], destDir, mask)
                        ELSE Applied("", "", f, {}),
                        hs, i, TotalAfter(v, hs[i].size, total),
                        CountAfter(v, count), destDir, mask)

ExtractFrom(f, hs, i, total, count, destDir, mask) ==
    IF i > Len(hs) THEN [err |-> "", fs |-> f]
    ELSE ExtractChecked(f, hs, i, total, count, destDir, mask,
                        Verdict(hs[i].name, hs[i].size, destDir, total, count))

\* archive.go 119-131: os.Open and xz.NewReader succeed for a regular file
\* the process may read that holds a complete archive.
CanOpen(f, st, valid) ==
    Exists(f, st) /\ f[st.path].kind = "file" /\ Readable(f[st.path]) /\ valid

\* builder.go 134-141: ExtractPackageTo once os.MkdirAll has returned mk.
Into(mk, opens, hs, destDir, mask) ==
    IF mk.err # "" THEN [err |-> "mkdir", fs |-> mk.fs]
    ELSE IF ~opens THEN [err |-> "open", fs |-> mk.fs]
    ELSE ExtractFrom(mk.fs, hs, 1, 0, 0, destDir, mask)

\* builder.go 126-144: what ExtractPackageTo(packagePath, destDir) returns
\* and the filesystem it leaves; hs are the headers of the package and
\* valid says that it is a complete archive.
Unpacked(f, packagePath, valid, hs, destDir, mask) ==
    IF IsNotExist(f, Stat(f, PathOf(packagePath)))
    THEN [err |-> "package", fs |-> f]
    ELSE Into(MkdirAll(f, PathOf(destDir), 493, mask),
              CanOpen(f, Stat(f, PathOf(packagePath)), valid),
              hs, destDir, mask)

\* builder.go 126-144
ExtractPackageTo ==
    /\ bdExtract = "none"
    /\ \E r \in {Unpacked(fs, bdPkg, origin = "created", archive, DestDir,
                           umask)} :
          /\ bdExtract' = IF r.err = "" THEN "ok" ELSE "error"
          /\ fs' = r.fs
    /\ bdLog' = Append(bdLog, "ExtractPackageTo")
    /\ UNCHANGED <<umask, tarVars, bdSource, bdPkg, bdCreate, bdWarned,
                   bvResult, bvVerify, bvOut, pathVars, limitVars, sumVars,
                   digestVars>>

\* A list of paths printed under a heading.
Printed(what, paths) == [i \in 1..Len(paths) |-> <<what, paths[i]>>]

\* VerifyChecksums' report if it left out the failed paths.
ReportWithoutFailed(passed, failed) ==
    Printed("passed", passed)
        \o << <<"counts", Len(passed), Len(failed)>> >>

\* builder.go 197-205: the passed paths, the failed paths, the counts.
Report(passed, failed) ==
    Printed("passed", passed) \o Printed("failed", failed)
        \o << <<"counts", Len(passed), Len(failed)>> >>

\* builder.go 189-212: VerifyChecksums(dest/crc32sums, dest/data).
VerifyChecksums ==
    /\ bvResult = "none"
    /\ \E r \in {VerifySums(fs, Join(DestDir, SumsName),
                             Join(DestDir, DataName))} :
          /\ bvVerify' = r
          /\ bvOut' = IF r.err # "" THEN <<>> ELSE Report(r.passed, r.failed)
          /\ bvResult' = IF r.err # "" \/ Len(r.failed) > 0 THEN "error"
                         ELSE "nil"
    /\ bdLog' = Append(bdLog, "VerifyChecksums")
    /\ UNCHANGED <<fs, umask, tarVars, bdSource, bdPkg, bdCreate, bdWarned,
                   bdExtract, pathVars, limitVars, sumVars, digestVars>>

NextBuild == CreatePackage \/ ExtractPackageTo \/ VerifyChecksums

SpecBuild == InitBuild /\ [][NextBuild]_vars

----------------------------------------------------------------------------
(* Properties of the path-safety check (SpecPath)                          *)

HasDotDotSegment(name) ==
    \E i \in 1..Len(SplitSlash(name)) : SplitSlash(name)[i] = DotDot

\* Empty, absolute, with a NUL byte, or with a ".." path segment.
BadName(name) ==
    \/ name = <<>>
    \/ name[1] = Slash
    \/ \E i \in 1..Len(name) : name[i] = "NUL"
    \/ HasDotDotSegment(name)

\* C2: for every destination directory, an entry whose name is empty,
\* absolute, holds a NUL byte or has a ".." segment at any depth makes
\* isPathSafe return false, and Extract skips it (nothing is created).
C2_BadNamesRejected ==
    (pcOutcome \in {"skipped", "checked"} /\ BadName(pcName))
        => (pcSafe = FALSE /\ pcOutcome = "skipped")

\* "foo/../../etc/passwd": a ".." segment below the first one, rejected.
C2_Witness ==
    /\ pcOutcome = "skipped"
    /\ pcName = <<"a", "/", ".", ".", "/", ".", ".", "/", "a">>
    /\ pcDest = <<"/">>

\* C3: every non-empty, relative name without NUL and without a ".."
\* segment is accepted by isPathSafe and goes on to be applied, whether the
\* destination directory is absolute or relative.
C3_PlainNamesAccepted ==
    (pcOutcome \in {"skipped", "checked"} /\ ~BadName(pcName))
        => (pcSafe = TRUE /\ pcOutcome = "checked")

----------------------------------------------------------------------------
(* Properties of the resource ceilings (SpecLimits)                        *)

\* A step that reads one header; the header is lmLast'.
ReadsHeader == lmRead' = lmRead + 1

SkipCase(e) == BadName(e.name) \/ e.size > MaxFileSize

\* C4: an entry with an unsafe path or a declared size above MaxFileSize is
\* skipped with one warning and never ends Extract; an entry of exactly
\* MaxFileSize is not skipped; after any number of skips an acceptable
\* entry within the ceilings is applied; io.EOF then returns success.
C4_SkipStep ==
    /\ (ReadsHeader /\ SkipCase(lmLast'))
          => /\ lmStatus' = "running"
             /\ lmWarned' = lmWarned + 1
             /\ lmApplied' = lmApplied
             /\ lmTotalSize' = lmTotalSize
             /\ lmFileCount' = lmFileCount
    /\ (/\ ReadsHeader
        /\ ~SkipCase(lmLast')
        /\ lmTotalSize + lmLast'.size <= MaxArchiveSize
        /\ lmFileCount + 1 <= MaxFiles)
          => /\ lmStatus' = "running"
             /\ lmWarned' = lmWarned
             /\ lmApplied' = lmApplied + 1
    /\ (lmStatus = "running" /\ ~ReadsHeader /\ lmRead' = lmRead)
          => lmStatus' \in {"running", "ok"}

C4_SkippedNotFatal == [][C4_SkipStep]_vars

\* Success after an unsafe or oversized entry was skipped and a later entry
\* of exactly MaxFileSize was applied.
C4_Witness ==
    /\ lmStatus = "ok"
    /\ lmWarned >= 2
    /\ lmLast.verdict = "apply"
    /\ lmLast.size = MaxFileSize

\* C5 as stated: whenever the declared sizes of the entries of the archive
\* add up to more than MaxArchiveSize, Extract does not return success, and
\* nothing is applied from the entry on at which the sum exceeds the ceiling.
C5_DeclaredTotalAborts ==
    /\ (lmStatus = "ok" => lmDeclared <= MaxArchiveSize)
    /\ (lmDeclared > MaxArchiveSize => lmLast.verdict # "apply")

C5_AmendedStep ==
    /\ (ReadsHeader /\ lmPassedSize' > MaxArchiveSize)
          => (lmStatus' = "error" /\ lmApplied' = lmApplied)
    /\ (/\ ReadsHeader
        /\ ~SkipCase(lmLast')
        /\ lmPassedSize' <= MaxArchiveSize
        /\ lmFileCount + 1 <= MaxFiles)
          => (lmStatus' = "running" /\ lmApplied' = lmApplied + 1)
    /\ (lmStatus = "error")
          => \/ lmApplied' = lmApplied /\ lmStatus' = "error"
             \/ ExtractStreamOpen

\* C5, amended: the running total counts only the entries that pass the
\* path-safety and per-file size checks; when it exceeds MaxArchiveSize
\* Extract returns an error and neither that entry nor a later one is
\* applied (the only step after the error is the next call of Extract); a
\* total equal to MaxArchiveSize does not abort.
C5_PassedTotalAborts == [][C5_AmendedStep]_vars

\* The total stood at exactly MaxArchiveSize, all of it applied, and the
\* next entry aborted.
C5_Witness ==
    /\ lmStatus = "error"
    /\ lmLast.verdict = "tooLarge"
    /\ lmAppliedSize = MaxArchiveSize
    /\ lmPassedSize > MaxArchiveSize

\* C6 as stated: an archive of MaxFiles + 1 or more entries never extracts
\* with success, and one of at most MaxFiles entries is never aborted by the
\* entry-count check.
C6_EntryCountAborts ==
    /\ (lmStatus = "ok" => lmRead <= MaxFiles)
    /\ (lmLast.verdict = "tooMany" => lmRead > MaxFiles)

\* C6, amended: the count is of the entries that pass the path-safety and
\* per-file size checks: the archive is aborted once MaxFiles + 1 of them
\* have been read, and the entry-count check never aborts before that.
C6_PassedCountAborts ==
    /\ (lmPassed > MaxFiles => lmStatus = "error")
    /\ (lmLast.verdict = "tooMany" => lmPassed = MaxFiles + 1)
    /\ (lmStatus = "ok" => lmPassed <= MaxFiles)

\* The abort at the 10,001st counted entry of an archive that held skipped
\* entries as well.
C6_Witness ==
    /\ lmStatus = "error"
    /\ lmLast.verdict = "tooMany"
    /\ lmPassed = MaxFiles + 1
    /\ lmRead > MaxFiles + 1

\* C7: at every point of Extract at most MaxFiles entries have been applied,
\* their declared sizes add up to at most MaxArchiveSize, and none of them
\* is larger than MaxFileSize.
C7_AppliedWithinCeilings ==
    /\ lmApplied <= MaxFiles
    /\ lmAppliedSize <= MaxArchiveSize
    /\ lmAppliedMax <= MaxFileSize

\* Entries of MaxFileSize applied up to exactly MaxArchiveSize.
C7_Witness ==
    /\ lmAppliedSize = MaxArchiveSize
    /\ lmAppliedMax = MaxFileSize
    /\ lmApplied > 10

----------------------------------------------------------------------------
(* Properties of Create, ListContents and Extract (Spec)                   *)

\* The objects below root, by relative path, without their inode numbers
\* (a symbolic link has no permission bits of its own).
TreeAt(f, root) ==
    LET below == { q \in DOMAIN f : IsUnder(q, root) /\ q # root }
    IN  { [path |-> SubSeq(q, Len(root) + 1, Len(q)),
           node |-> [f[q] EXCEPT !.ino = 0,
                                 !.mode = IF f[q].kind = "link" THEN 0
                                          ELSE f[q].mode]] : q \in below }

\* C1: whatever the archive, every object Extract creates, truncates or
\* writes is at a real (symlink-resolved) path inside the real path of the
\* destination directory, after each entry of the stream.
C1_WritesStayInDest ==
    \A p \in touched : IsUnder(p, Stat(fs, DestPath).path)

\* C8: Create of a source tree followed by Extract into the empty
\* destination succeeds and leaves there the same relative paths with the
\* same content, link targets and permission bits (stated for a source
\* directory given by its own path whose files are all within MaxFileSize).
C8_RoundTrip ==
    (/\ origin = "created"
     /\ createResult.sourceDir = SourceDir
     /\ status \in {"ok", "error"}
     /\ \A i \in 1..Len(archive) : archive[i].size <= MaxFileSize)
        => /\ status = "ok"
           /\ TreeAt(fs, DestPath) = TreeAt(fs, SourcePath)

\* The objects of the source tree: everything below the directory that the
\* path given to Create leads to.
SourceTree ==
    LET st == Stat(fs, PathOf(createResult.sourceDir))
    IN  IF Exists(fs, st)
        THEN { q \in DOMAIN fs : IsUnder(q, st.path) /\ q # st.path }
        ELSE {}

\* The objects of the source tree that Create cannot read: the regular
\* files and directories without the owner's read permission.
NotArchivable ==
    { q \in SourceTree : fs[q].kind # "link" /\ (fs[q].mode \div 256) % 2 = 0 }

\* C19: once Create has returned, if the source directory does not exist
\* or an object below it cannot be read, Create returned an error and no
\* result; and whenever Create returned success the archive has one header
\* for every object of the source tree, none left out.
C19_CreateAbortsOnFailure ==
    createResult.err # "none"
        => /\ (SourcePath \notin DOMAIN fs \/ NotArchivable # {})
                => /\ createResult.err # ""
                   /\ createResult.FilesAdded = 0
                   /\ createResult.TotalSize = 0
           /\ createResult.err = ""
                => Len(archive) = Cardinality(SourceTree)

\* The real path a header's name stands for below the destination.
TargetOf(name) == PathOf(Join(DestDir, name))

----------------------------------------------------------------------------
(* Properties of the manifest (SpecSums)                                   *)

\* C10: after the first CreateCRC32Sums of a directory has succeeded and
\* with its files unmodified, VerifyCRC32Sums returns no error, an empty
\* failed list, and as passed the recorded paths in manifest order.
C10_VerifyAfterCreate ==
    (smRuns = 1 /\ smCreate = "ok" /\ smModified = {} /\ smVerify # "none")
        => /\ smVerify = "ok"
           /\ smFailed = <<>>
           /\ smPassed = [i \in 1..Len(smEntries) |-> smEntries[i].Path]

\* The paths CreateCRC32Sums recorded, in manifest order.
RecordedPaths == [i \in 1..Len(smEntries) |-> smEntries[i].Path]

\* The path, relative to the directory, of a file in it.
RelName(q) == JoinSlash(SubSeq(q, Len(DataPath) + 1, Len(q)))

IsModifiedName(n) == \E q \in smModified : RelName(q) = n

NotModifiedName(n) == ~IsModifiedName(n)

\* C11: after CreateCRC32Sums, rewriting one recorded file with other bytes
\* makes VerifyCRC32Sums return exactly that file's path in failed and every
\* other recorded path in passed.
C11_ModifiedFileFails ==
    (smRuns = 1 /\ smCreate = "ok" /\ smModified # {} /\ smVerify # "none")
        => /\ smVerify = "ok"
           /\ smFailed = SelectSeq(RecordedPaths, IsModifiedName)
           /\ Len(smFailed) = 1
           /\ smPassed = SelectSeq(RecordedPaths, NotModifiedName)

\* os.Open and the reads of the scanner succeed on the manifest.
ManifestReadable ==
    LET st == Stat(fs, PathOf(smOut))
    IN  Exists(fs, st) /\ fs[st.path].kind = "file"

HasTwoParts(line) == Len(SplitTwoSpaces(line)) = 2

\* The lines of the manifest that name a path after two spaces.
ListedLines ==
    SelectSeq(ScanLines(Content(fs[Stat(fs, PathOf(smOut)).path])), HasTwoParts)

InSeq(x, seq) == \E i \in 1..Len(seq) : seq[i] = x

IsHexField(field) ==
    LET digits == SkipSpace(field)
    IN  /\ digits # <<>>
        /\ \A i \in 1..Len(digits) : IsHexDigit(digits[i])
        /\ Len(DropZeros(digits)) <= 8

\* What is to become of a line: skipped without two fields, failed with a
\* checksum field that is not hexadecimal or a file that does not have the
\* recorded digest, passed otherwise.
LineClass(line) ==
    LET parts == SplitTwoSpaces(line)
        c == CalculateCRC32(fs, PathOf(Join(DataDir, parts[2])))
    IN  IF Len(parts) # 2 THEN "skipped"
        ELSE IF ~IsHexField(parts[1]) THEN "failed"
        ELSE IF c = [err |-> "", sum |-> SscanfHex(parts[1]).sum] THEN "passed"
        ELSE "failed"

IsFailedLine(line) == LineClass(line) = "failed"

IsPassedLine(line) == LineClass(line) = "passed"

PathsOf(lines) == [i \in 1..Len(lines) |-> SplitTwoSpaces(lines[i])[2]]

\* C13: every line of the manifest is classified once: one without two
\* fields is in neither list, one whose checksum field is not hexadecimal is
\* in failed, every other line is in passed or in failed by the digest of
\* its file, and both lists keep the order of the lines.
C13_LinesClassifiedOnce ==
    smVerify = "ok"
        => /\ smFailed = PathsOf(SelectSeq(ListedLines, IsFailedLine))
           /\ smPassed = PathsOf(SelectSeq(ListedLines, IsPassedLine))

\* A walked object that is a regular file, and not the manifest itself.
IsRegularFile(rel) ==
    /\ fs[DataPath \o rel].kind = "file"
    /\ DataPath \o rel # Stat(fs, PathOf(smOut)).path

\* The regular files under the directory, by relative path, in walk order.
RegularFiles ==
    LET w == SelectSeq(Walk(fs, DataPath), IsRegularFile)
    IN  [i \in 1..Len(w) |-> JoinSlash(w[i])]

\* C15: a successful CreateCRC32Sums returns one record for every regular
\* file under the directory and none for a directory or a symbolic link,
\* with the path relative to the directory, in walk order, each with the
\* digest of its file; the manifest holds the line of each record in the
\* same order and nothing else.
C15_OneRecordPerRegularFile ==
    (smRuns = 1 /\ smCreate = "ok" /\ smModified = {})
        => /\ RecordedPaths = RegularFiles
           /\ \A i \in 1..Len(smEntries) :
                smEntries[i].Checksum =
                    CalculateCRC32(fs, DataPath \o SplitSlash(smEntries[i].Path)).sum
           /\ Content(fs[Stat(fs, PathOf(smOut)).path]) = ManifestText(smEntries)

----------------------------------------------------------------------------
(* Properties of the digest (SpecDigest)                                   *)

\* C14: whatever the file is called and however the reads cut its content,
\* CalculateCRC32 returns CalculateCRC32Bytes of the content: 0 for no
\* bytes, 0x3610a686 for "hello", 0x0d4a1185 for "hello world".
C14_DigestOfContent ==
    dgPc = "done"
        => /\ dgSum = CalculateCRC32Bytes(DigestData)
           /\ dgSum = CalculateCRC32(fs, PathOf(dgPath)).sum
           /\ DigestData = <<>> => dgSum = <<0, 0>>
           /\ DigestData = Hello => Fmt08x(dgSum) = HelloSum
           /\ DigestData = HelloWorld
                 => Fmt08x(dgSum) = <<"0", "d", "4", "a", "1", "1", "8", "5">>

\* The content longer than the buffer, digested after short reads and more
\* than one full read.
C14_Witness ==
    /\ dgPc = "done"
    /\ dgOffset = ChunkSize + 1
    /\ dgShort = MaxShort

----------------------------------------------------------------------------
(* Properties of the Builder (SpecBuild)                                   *)

\* The relative paths of the regular files below data/ in the source.
DataFiles ==
    { JoinSlash(SubSeq(q, Len(SourcePath) + 2, Len(q))) :
        q \in { r \in DOMAIN fs : /\ IsUnder(r, SourcePath \o <<DataName>>)
                                  /\ fs[r].kind = "file" } }

\* The headers of the archive with the given name.
EntriesNamed(name) == { i \in 1..Len(archive) : archive[i].name = name }

\* C16: when CreatePackage has succeeded for a source directory that has a
\* data/ subdirectory, the archive holds a crc32sums entry whose content is
\* the manifest of data/; and when ExtractPackageTo into the destination
\* (which did not exist) and then the verification of dest/crc32sums
\* against dest/data have followed, the extraction succeeded and the
\* verification returned no error, an empty failed list and a passed list
\* made of every regular file of data/.
C16_BuildExtractVerify ==
    (/\ bdCreate = "ok"
     /\ IsDir(fs, SourcePath \o <<DataName>>))
        => /\ \E i \in EntriesNamed(SumsName) :
                 /\ archive[i].typeflag = "reg"
                 /\ archive[i].data =
                        ManifestText(SumEntries(fs, SourcePath \o <<DataName>>,
                                                Walk(fs, SourcePath \o <<DataName>>)).entries)
           /\ bdLog = <<"CreatePackage", "ExtractPackageTo", "VerifyChecksums">>
                 => /\ bdExtract = "ok"
                    /\ bvVerify.err = ""
                    /\ bvVerify.failed = <<>>
                    /\ { bvVerify.passed[i] : i \in 1..Len(bvVerify.passed) }
                           = DataFiles

\* VerifyChecksums has printed every passed path, every failed path and,
\* last, the two counts of what VerifyCRC32Sums returned to it.
FullReport ==
    /\ \A i \in 1..Len(bvVerify.passed) :
          \E k \in 1..Len(bvOut) : bvOut[k] = <<"passed", bvVerify.passed[i]>>
    /\ \A i \in 1..Len(bvVerify.failed) :
          \E k \in 1..Len(bvOut) : bvOut[k] = <<"failed", bvVerify.failed[i]>>
    /\ bvOut # <<>>
    /\ bvOut[Len(bvOut)]
          = <<"counts", Len(bvVerify.passed), Len(bvVerify.failed)>>

\* C17 as stated: whenever VerifyChecksums has returned it has printed the
\* full report, and it returned an error exactly if the manifest could not
\* be read or a file failed.
C17_AlwaysFullReport ==
    bvResult # "none"
        => /\ FullReport
           /\ bvResult = "error"
                 <=> (bvVerify.err # "" \/ bvVerify.failed # <<>>)

\* C17, amended: when the manifest could be read, VerifyChecksums has
\* printed every passed path, every failed path and the counts before it
\* returned, and it returned an error exactly if a file failed; when the
\* manifest could not be read it returned an error and printed no report.
C17_FullReportIfReadable ==
    bvResult # "none"
        => /\ bvVerify.err = ""
                 => /\ FullReport
                    /\ bvResult = "error" <=> bvVerify.failed # <<>>
           /\ bvVerify.err # ""
                 => /\ bvResult = "error"
                    /\ bvOut = <<>>

\* VerifyChecksums has returned an error after a verification in which one
\* file passed and another failed.
C17_Witness ==
    /\ bvResult = "error"
    /\ bvVerify.err = ""
    /\ bvVerify.passed # <<>>
    /\ bvVerify.failed # <<>>
    /\ Len(bvOut) = Len(bvVerify.passed) + Len(bvVerify.failed) + 1

\* The step is a call of the Builder's method of that name.
Calls(method) == bdLog' = Append(bdLog, method)

\* The source given to CreatePackage exists and is a directory.
SourceIsDirectory ==
    /\ PathOf(bdSource) \in DOMAIN fs
    /\ fs[PathOf(bdSource)].kind = "dir"

\* There is an object at the package path.
PackageExists ==
    LET st == Stat(fs, PathOf(bdPkg))
    IN  st.err = "" /\ st.path \in DOMAIN fs

\* CreatePackage with a source that is missing or not a directory returns
\* an error and changes nothing on disk.
C18_CreateStep ==
    (Calls("CreatePackage") /\ ~SourceIsDirectory)
        => bdCreate' = "error" /\ fs' = fs /\ archive' = archive

\* ExtractPackageTo with a package that does not exist returns an error
\* and changes nothing on disk.
C18_ExtractStep ==
    (Calls("ExtractPackageTo") /\ ~PackageExists)
        => bdExtract' = "error" /\ fs' = fs

\* C18: a call of CreatePackage whose source does not exist or is not a
\* directory returns an error and creates neither the archive nor a
\* checksum file, and a call of ExtractPackageTo whose package does not
\* exist returns an error and creates nothing, not even the destination
\* directory.
C18_InvalidInputChangesNothing ==
    [][C18_CreateStep /\ C18_ExtractStep]_vars

\* CreateCRC32Sums fails for the subdirectory name of the source, written
\* to the file sums of the source.
SumsFail(name, sums) ==
    /\ IsDir(fs, PathOf(Join(bdSource, name)))
    /\ CreateSums(fs, PathOf(Join(bdSource, name)),
                  PathOf(Join(bdSource, sums)), umask).err # ""

\* The call returns an error and leaves no archive at the package path.
AbortsWithoutArchive ==
    /\ bdCreate' = "error"
    /\ origin' = "none"
    /\ ~Exists(fs', Stat(fs', PathOf(bdPkg)))

\* C20: a call of CreatePackage in which the generation of the manifest
\* fails, for data/ or for home/, returns an error and creates no archive.
C20_ChecksumFailureAborts ==
    [][(/\ Calls("CreatePackage")
        /\ SourceIsDirectory
        /\ \/ SumsFail(DataName, SumsName)
           \/ SumsFail(HomeName, HomeSumsName))
          => AbortsWithoutArchive]_vars

----------------------------------------------------------------------------
(* Further properties of Extract and Create (Spec)                         *)

\* The step takes header pos, of one of the given types, to the switch.
ReachesSwitch(types) ==
    /\ status = "running"
    /\ pos' = pos + 1
    /\ pos \in applied'
    /\ archive[pos].typeflag \in types

\* C21: whenever a regular-file, symlink or hard-link entry reaches the
\* switch of Extract, the parent directory of the entry's path exists in
\* the destination once the entry has been handled, whatever directory
\* entries the archive holds and in whatever order; the one exception is a
\* parent that cannot be created, and then Extract stops with an error
\* and the entry has created nothing.
C21_ParentExistsWhenApplied ==
    [][ReachesSwitch({"reg", "symlink", "link"})
          => \/ IsDir(fs', Parent(TargetOf(archive[pos].name)))
             \/ /\ MkdirAll(fs, Parent(TargetOf(archive[pos].name)), 493,
                             umask).err # ""
                /\ status' = "error"
                /\ fs' = fs]_vars

\* The first entry of the archive is the regular file b/a, no directory
\* entry precedes it, and Extract has written it.
C21_Witness ==
    /\ status \in {"running", "ok"}
    /\ 1 \in applied
    /\ archive[1].typeflag = "reg"
    /\ archive[1].name = <<"b", "/", "a">>
    /\ pos = 2
    /\ IsDir(fs, DestPath \o << <<"b">> >>)
    /\ (DestPath \o << <<"b">>, <<"a">> >>) \in DOMAIN fs

\* The object at the path of header pos, without following a last
\* symbolic link, in the filesystem f.
ObjectAt(f) == Lstat(f, TargetOf(archive[pos].name))

\* What a step of a repeated Extract does with header pos: an existing
\* symbolic link is left as it is without a warning, a regular file holds
\* the archive's content afterwards, an existing directory is left in
\* place, a hard link whose path exists gives a warning.
RerunEntry ==
    /\ (/\ archive[pos].typeflag = "symlink"
        /\ Exists(fs, ObjectAt(fs))
        /\ fs[ObjectAt(fs).path].kind = "link")
          => fs' = fs /\ warnings' = warnings
    /\ archive[pos].typeflag = "reg"
          => LET st == Stat(fs', TargetOf(archive[pos].name))
             IN  /\ Exists(fs', st)
                 /\ fs'[st.path].kind = "file"
                 /\ fs'[st.path].size = archive[pos].size
                 /\ fs'[st.path].data = archive[pos].data
    /\ (archive[pos].typeflag = "dir" /\ IsDir(fs, TargetOf(archive[pos].name)))
          => fs' = fs
    /\ (archive[pos].typeflag = "link" /\ Exists(fs, ObjectAt(fs)))
          => /\ fs' = fs
             /\ [at |-> pos, why |-> "hardlink"] \in warnings'

\* C22: in a call of Extract that follows a successful call for the same
\* archive and destination, no step ends in an error, and every entry that
\* reaches the switch is handled as RerunEntry says.
C22_RerunSucceeds ==
    [][(extractRuns >= 2 /\ ReachesSwitch({"dir", "reg", "symlink", "link"}))
          => status' # "error" /\ RerunEntry]_vars

\* The parent directory of the path of header pos cannot be created.
ParentFails ==
    MkdirAll(fs, Parent(TargetOf(archive[pos].name)), 493, umask).err # ""

\* The step has not created the link of header pos: something was at its
\* path before, or nothing is there afterwards.
LinkNotCreated == Exists(fs, ObjectAt(fs)) \/ ~Exists(fs', ObjectAt(fs'))

\* Something is at the path of the symbolic link of header pos already.
SymlinkPathExists ==
    archive[pos].typeflag = "symlink" /\ Exists(fs, ObjectAt(fs))

\* A symbolic link is at the path of the symbolic link of header pos.
SymlinkExists ==
    SymlinkPathExists /\ fs[ObjectAt(fs).path].kind = "link"

\* A symbolic-link or hard-link entry: only a parent directory that cannot
\* be created ends the extraction; a link that cannot be created gives a
\* warning, except in the case quiet, and Extract goes on.
LinkStep(quiet) ==
    ReachesSwitch({"symlink", "link"})
        => IF ParentFails THEN status' = "error"
           ELSE /\ status' = "running"
                /\ (\E w \in warnings' : w.at = pos)
                      <=> (LinkNotCreated /\ ~quiet)

\* A directory or regular-file entry: Extract goes on exactly if the
\* directory exists afterwards, resp. the file could be opened for
\* writing, and then the file holds the entry's content.
FileStep ==
    /\ ReachesSwitch({"dir"})
          => (status' = "error" <=> ~IsDir(fs', TargetOf(archive[pos].name)))
    /\ ReachesSwitch({"reg"})
          => LET st == Stat(fs', TargetOf(archive[pos].name))
             IN  status' = "running"
                    => /\ Exists(fs', st)
                       /\ fs'[st.path].kind = "file"
                       /\ fs'[st.path].data = archive[pos].data

\* After an error no further entry is handled.
StopsAtError ==
    status = "error" => (fs' = fs /\ pos' = pos /\ status' = "error")

RECURSIVE WalksBefore(_, _)
WalksBefore(p, q) ==
    IF q = <<>> THEN FALSE
    ELSE IF p = <<>> THEN TRUE
    ELSE IF Head(p) # Head(q) THEN StrLess(Head(p), Head(q))
    ELSE WalksBefore(Tail(p), Tail(q))

\* The names of the entries of the archive.
EntryNamesOf(a) == { a[i].name : i \in 1..Len(a) }

\* C24: a container that Create has written has no entry for the root,
\* exactly one entry for every other object of the source tree, only names
\* that are non-empty, relative and without a ".." segment, and its
\* entries are in depth-first walk order (so a directory precedes what is
\* beneath it, and the sequence is the one Create emits for this tree
\* whenever it is called).
C24_ContainerInvariants ==
    origin = "created"
        => /\ \A i \in 1..Len(archive) :
                 /\ archive[i].name \notin {<<>>, <<Dot>>}
                 /\ ~IsAbs(archive[i].name)
                 /\ ~HasDotDotSegment(archive[i].name)
           /\ Len(archive) = Cardinality(SourceTree)
           /\ EntryNamesOf(archive)
                 = { JoinSlash(SubSeq(q, Len(Stat(fs, PathOf(createResult.sourceDir)).path) + 1,
                                      Len(q))) : q \in SourceTree }
           /\ \A i, j \in 1..Len(archive) :
                 i < j => WalksBefore(SplitSlash(archive[i].name),
                                      SplitSlash(archive[j].name))
           /\ archive = CreateEntries(fs, PathOf(createResult.sourceDir))

\* The name Create gives to the object q of the source tree.
EntryNameOf(q) ==
    JoinSlash(SubSeq(q, Len(Stat(fs, PathOf(createResult.sourceDir)).path) + 1,
                     Len(q)))

\* The sum of the sizes of the regular files among the objects of S.
RECURSIVE FileBytes(_)
FileBytes(S) ==
    IF S = {} THEN 0
    ELSE LET q == CHOOSE x \in S : TRUE
         IN  (IF fs[q].kind = "file" THEN fs[q].size ELSE 0)
                 + FileBytes(S \ {q})

\* The symbolic links of the source tree.
SourceLinks == { q \in SourceTree : fs[q].kind = "link" }

\* C25: once Create has returned success, every symbolic link of the
\* source tree is exactly one entry, of type symlink, with the link's own
\* target as link name and no content, and no entry lies beneath it;
\* TotalSize is the sum of the sizes of the regular files of the tree and
\* FilesAdded the number of entries. A failure of Create is never due to a
\* symbolic link: it has a missing source directory or an unreadable file
\* or directory.
C25_SymlinksNotFollowed ==
    /\ origin = "created"
          => /\ \A q \in SourceLinks :
                   /\ Cardinality({ i \in 1..Len(archive) :
                                       archive[i].name = EntryNameOf(q) }) = 1
                   /\ \A i \in 1..Len(archive) :
                         /\ archive[i].name = EntryNameOf(q)
                               => /\ archive[i].typeflag = "symlink"
                                  /\ archive[i].linkname = fs[q].target
                                  /\ archive[i].size = 0
                                  /\ archive[i].data = <<>>
                         /\ ~IsUnder(SplitSlash(archive[i].name),
                                     SplitSlash(EntryNameOf(q)))
                               \/ archive[i].name = EntryNameOf(q)
             /\ createResult.TotalSize = FileBytes(SourceTree)
             /\ createResult.FilesAdded = Len(archive)
    /\ createResult.err = "walk"
          => \/ ~Exists(fs, Lstat(fs, PathOf(createResult.sourceDir)))
             \/ NotArchivable # {}

\* C27: every file under the destination directory that is a hard link of
\* another file has that file under the destination directory too: no
\* hard link below the destination shares its inode with a file outside.
C27_LinkedFileInsideDest ==
    \A p \in DOMAIN fs :
        \A q \in DOMAIN fs :
            (/\ IsUnder(p, DestPath)
             /\ fs[p].kind = "file"
             /\ fs[q].kind = "file"
             /\ fs[q].ino = fs[p].ino)
                => IsUnder(q, DestPath)

\* C28: whenever Create has returned success, the tar stream, the xz
\* stream and the output file were all closed without error: the container
\* on disk is complete.
C28_SuccessMeansComplete ==
    createResult.err = ""
        => createResult.closeErr = "" /\ origin = "created"

----------------------------------------------------------------------------
(* Further properties of the manifest (SpecSums)                           *)

\* The walk of CreateCRC32Sums over the directory ends with an error.
SumsWalkFails == SumEntries(fs, DataPath, Walk(fs, DataPath)).err # ""

\* C29: a call of CreateCRC32Sums whose walk fails, at the directory or at
\* the digest of a file, returns an error and no entries and leaves the
\* filesystem as it was: no manifest is created and an earlier one keeps
\* its bytes.
C29_FailureLeavesOutput ==
    [][(smRuns' = smRuns + 1 /\ SumsWalkFails)
          => /\ smCreate' = "error"
             /\ smEntries' = <<>>
             /\ fs' = fs]_vars

\* The second call failed at a file made unreadable after the first one,
\* whose manifest is still there.
C29_Witness ==
    /\ smRuns = 2
    /\ smCreate = "error"
    /\ SumsWalkFails
    /\ ManifestReadable

\* C30: after any number of consecutive calls of CreateCRC32Sums for the
\* same directory and output path, the last of them successful and no file
\* changed since, VerifyCRC32Sums of the manifest returns no error and an
\* empty failed list, whether the manifest is inside the directory or not.
C30_RepeatableManifest ==
    (smRuns >= 1 /\ smCreate = "ok" /\ smModified = {} /\ smVerify # "none")
        => (smVerify = "ok" /\ smFailed = <<>>)

----------------------------------------------------------------------------
(* Further properties of Extract's checks (SpecLimits)                     *)

\* What the checks decide for the header e when they are applied in the
\* order path safety, per-file size, cumulative size, entry count.
InOrder(e, total, count) ==
    IF BadName(e.name) THEN "unsafe"
    ELSE IF e.size > MaxFileSize THEN "large"
    ELSE IF total + e.size > MaxArchiveSize THEN "tooLarge"
    ELSE IF count + 1 > MaxFiles THEN "tooMany"
    ELSE "apply"

C26_Step ==
    /\ (ReadsHeader /\ lmRun' = lmRun)
          => /\ lmLast'.verdict = InOrder(lmLast', lmTotalSize, lmFileCount)
             /\ SkipCase(lmLast')
                   => lmTotalSize' = lmTotalSize /\ lmFileCount' = lmFileCount
             /\ lmTotalSize' - lmTotalSize = lmPassedSize' - lmPassedSize
             /\ lmFileCount' - lmFileCount <= lmPassed' - lmPassed
    /\ (lmStatus # "running" /\ lmStatus' = "running")
          => lmTotalSize' = 0 /\ lmFileCount' = 0
    /\ lmTotalSize = lmPassedSize
    /\ lmFileCount <= lmPassed

\* C26: Extract decides about each header by path safety first, then the
\* per-file size, then the cumulative size, then the entry count; a
\* skipped entry changes neither totalSize nor fileCount, so totalSize is
\* the sum of the sizes and fileCount at most the number of the entries
\* that passed the first two checks; and every call of Extract starts with
\* both at zero.
C26_ChecksInOrder == [][C26_Step]_vars

\* An entry that passed the first two checks and exceeds both the
\* cumulative size and the entry count was refused for the size: fileCount
\* still stands at MaxFiles.
C26_Witness ==
    /\ lmStatus = "error"
    /\ lmLast.verdict = "tooLarge"
    /\ lmFileCount = MaxFiles
    /\ lmTotalSize > MaxArchiveSize
====
